---- MODULE Spec2Model ----
(***************************************************************************)
(* Wandr: the AI response ingestion layer of src/services/ai.ts.           *)
(*                                                                         *)
(* Texts are sequences of one-character strings.  The backtick cannot be   *)
(* written inside a TLA+ string, so it is the atom BT.                     *)
(*                                                                         *)
(* Specifications:                                                         *)
(*   SpecParse   parseJSON and asArray applied to bounded sets of texts    *)
(*   Spec        one callGeneration request, in the two snapshots of the   *)
(*               router the repository holds                               *)
(*   SpecDomain  one call of a domain function, from its pending event to  *)
(*               its terminal event                                        *)
(*   SpecCalls   several domain-function calls in flight together          *)
(*   SpecSlots   the listener slots of activityLog.ts and logger.ts        *)
(*   SpecApp     the trip handlers of App.tsx under the detail view's tabs *)
(*   SpecChat    AIChat: the history load, send and clearChat              *)
(***************************************************************************)
EXTENDS Integers, Sequences, FiniteSets, TLC

VARIABLES
    before, jtxt, after,    \* SpecParse: the three parts of the raw model text
    out,                    \* SpecParse: what parseJSON(raw) produced
    arr,                    \* SpecParse: what asArray(out.val) produced
    snap,                   \* Spec: which snapshot of callGeneration runs
    anthropicKey, perplexityKey, context,   \* Spec: the request's arguments
    pc,                     \* Spec: where the request is
    claudeResp, pplxResp,   \* Spec: the HTTP responses the providers gave
    claudeCalls, pplxCalls, \* Spec: fetches issued to each provider
    pplxContent,            \* Spec: the user message sent to Perplexity
    claudeContent,          \* Spec: the user content sent to Claude
    thrown,                 \* Spec: the error callClaude threw, if any
    events,                 \* Spec: activity events emitted, in order
    outcome,                \* Spec: how the promise settled
    calls,                  \* SpecDomain, SpecCalls: the domain-function calls
    log,                    \* SpecDomain, SpecCalls: activity events delivered
                            \* and fetches issued, in order
    host,                   \* SpecDomain, SpecCalls: the browser's UTC offset, hours
    activityListener,       \* SpecSlots: listener of activityLog.ts
    logListener,            \* SpecSlots: listener of logger.ts
    entries,                \* SpecSlots: entries of logger.ts
    delivered,              \* SpecSlots: what the listeners were called with, in order
    returned,               \* SpecSlots: what the last logActivity returned
    trace,                  \* SpecSlots: the calls made so far, in order
    trips, selectedTrip,    \* SpecApp: the trip as App.tsx holds it
    stored,                 \* SpecApp: the trip document in Firestore
    writes,                 \* SpecApp: setDoc calls not yet acknowledged, in order
    saves,                  \* SpecApp: the handleUpdateTrip calls made, in order
    tasks,                  \* SpecApp: the handler calls of the detail view
    activeTab,              \* SpecApp: the tab shown
    inst,                   \* SpecApp: which mount of the tab's component is shown
    loading,                \* SpecApp: loading flag of the mounted component
    chatStored,             \* SpecChat: the trip's chat document in Firestore
    chatShown,              \* SpecChat: whether AIChat is mounted
    chatMount,              \* SpecChat: which mount of AIChat is shown
    chatMessages,           \* SpecChat: messages of the mounted AIChat
    chatLoading,            \* SpecChat: loading of the mounted AIChat
    loadPending,            \* SpecChat: getChatHistory of this mount has not resolved
    sends                   \* SpecChat: the calls of send

parseVars == <<before, jtxt, after, out, arr>>
routerVars == <<snap, anthropicKey, perplexityKey, context, pc, claudeResp, pplxResp,
                claudeCalls, pplxCalls, pplxContent, claudeContent, thrown, events, outcome>>
domainVars == <<calls, log, host>>
slotVars == <<activityListener, logListener, entries, delivered, returned, trace>>
appVars == <<trips, selectedTrip, stored, writes, saves, tasks, activeTab, inst, loading>>
chatVars == <<chatStored, chatShown, chatMount, chatMessages, chatLoading, loadPending, sends>>
uiVars == <<slotVars, appVars, chatVars>>
\* What the calls of the listener modules leave alone.
slotFrame == <<parseVars, routerVars, domainVars, appVars, chatVars>>
\* What the handlers of the detail view leave alone.
appFrame == <<parseVars, routerVars, domainVars, slotVars, chatVars>>
\* What AIChat leaves alone.
chatFrame == <<parseVars, routerVars, domainVars, slotVars, appVars>>
vars == <<parseVars, routerVars, domainVars, uiVars>>

----------------------------------------------------------------------------
(* Characters *)

BT == "BACKTICK"
EMDASH == "EMDASH"
BS == "BACKSPACE"

\* The white space JSON.parse skips between tokens.
WsJSON == {" ", "\t", "\n", "\r"}
\* The white space of the regex class \s and of String.prototype.trim: it is
\* wider than JSON's (form feed stands for the characters only \s has).
WsJS == WsJSON \cup {"\f"}
\* The line terminators the multiline anchors ^ and $ look at.
LineTerm == {"\n", "\r"}
Digits == {"0", "1", "2", "3", "4", "5", "6", "7", "8", "9"}
HexDigits == Digits \cup {"a", "b", "c", "d", "e", "f", "A", "B", "C", "D", "E", "F"}
\* Characters JSON forbids raw inside a string literal.
ControlChars == {"\n", "\t", "\r", "\f", BS}

StartsWithAt(s, i, lit) ==
    /\ i >= 1
    /\ i + Len(lit) - 1 <= Len(s)
    /\ SubSeq(s, i, i + Len(lit) - 1) = lit

\* String.prototype.indexOf for a single character; 0 where JavaScript gives -1.
IndexOf(s, c) ==
    IF \E i \in 1..Len(s) : s[i] = c
    THEN CHOOSE i \in 1..Len(s) : s[i] = c /\ \A k \in 1..(i - 1) : s[k] # c
    ELSE 0

\* String.prototype.includes.
Includes(s, needle) ==
    \E i \in 1..(Len(s) - Len(needle) + 1) : StartsWithAt(s, i, needle)

RECURSIVE SkipSet(_, _, _)
\* The first index at or after i whose character is not in set.
SkipSet(s, i, set) ==
    IF i <= Len(s) /\ s[i] \in set THEN SkipSet(s, i + 1, set) ELSE i

----------------------------------------------------------------------------
(* JSON values and JSON.parse *)

\* Every value is [t, v] with v a sequence, so any two values compare.
NoVal == [t |-> "undefined", v |-> <<>>]
VNull == [t |-> "null", v |-> <<>>]
VBool(b) == [t |-> "bool", v |-> <<b>>]
\* A number is kept as its lexeme.
VNum(lex) == [t |-> "num", v |-> lex]
VStr(chars) == [t |-> "str", v |-> chars]
VArr(elems) == [t |-> "arr", v |-> elems]
\* An object is its own properties, <<key, value>>, in enumeration order.
VObj(props) == [t |-> "obj", v |-> props]

PFail == [ok |-> FALSE, val |-> NoVal, pos |-> 0]
POk(v, p) == [ok |-> TRUE, val |-> v, pos |-> p]

\* An array index key ("0", "7", "12"): such keys enumerate first, ascending.
IsIndexKey(k) ==
    /\ Len(k) >= 1
    /\ \A i \in 1..Len(k) : k[i] \in Digits
    /\ (Len(k) > 1 => k[1] # "0")

DigitVal(d) ==
    CASE d = "0" -> 0 [] d = "1" -> 1 [] d = "2" -> 2 [] d = "3" -> 3 [] d = "4" -> 4
      [] d = "5" -> 5 [] d = "6" -> 6 [] d = "7" -> 7 [] d = "8" -> 8 [] d = "9" -> 9

RECURSIVE KeyNum(_)
KeyNum(k) == IF k = <<>> THEN 0 ELSE 10 * KeyNum(SubSeq(k, 1, Len(k) - 1)) + DigitVal(k[Len(k)])

\* Where a new key goes in the property list: index keys in ascending order
\* before every other key, other keys last, in insertion order.
InsertAt(props, k) ==
    IF IsIndexKey(k)
    THEN Cardinality({i \in 1..Len(props) :
                        IsIndexKey(props[i][1]) /\ KeyNum(props[i][1]) < KeyNum(k)}) + 1
    ELSE Len(props) + 1

\* obj[k] = v: an existing key keeps its place and takes the new value.
ObjPut(props, k, v) ==
    IF \E i \in 1..Len(props) : props[i][1] = k
    THEN [i \in 1..Len(props) |-> IF props[i][1] = k THEN <<k, v>> ELSE props[i]]
    ELSE LET at == InsertAt(props, k)
         IN SubSeq(props, 1, at - 1) \o << <<k, v>> >> \o SubSeq(props, at, Len(props))

ParseLiteral(s, i) ==
    IF StartsWithAt(s, i, <<"t", "r", "u", "e">>) THEN POk(VBool("true"), i + 4)
    ELSE IF StartsWithAt(s, i, <<"f", "a", "l", "s", "e">>) THEN POk(VBool("false"), i + 5)
    ELSE IF StartsWithAt(s, i, <<"n", "u", "l", "l">>) THEN POk(VNull, i + 4)
    ELSE PFail

\* -? (0 | [1-9][0-9]*) (. [0-9]+)? ([eE] [+-]? [0-9]+)?
ParseNumber(s, i) ==
    LET n == Len(s)
        i1 == IF s[i] = "-" THEN i + 1 ELSE i
        intOk == i1 <= n /\ s[i1] \in Digits
        i2 == IF s[i1] = "0" THEN i1 + 1 ELSE SkipSet(s, i1, Digits)
        hasFrac == i2 <= n /\ s[i2] = "."
        i3 == IF hasFrac THEN SkipSet(s, i2 + 1, Digits) ELSE i2
        fracOk == hasFrac => i3 > i2 + 1
        hasExp == i3 <= n /\ s[i3] \in {"e", "E"}
        e1 == IF hasExp /\ i3 + 1 <= n /\ s[i3 + 1] \in {"+", "-"} THEN i3 + 2 ELSE i3 + 1
        i4 == IF hasExp THEN SkipSet(s, e1, Digits) ELSE i3
        expOk == hasExp => i4 > e1
    IN IF intOk /\ fracOk /\ expOk THEN POk(VNum(SubSeq(s, i, i4 - 1)), i4) ELSE PFail

Unescape(e) ==
    CASE e = "b" -> BS [] e = "f" -> "\f" [] e = "n" -> "\n" [] e = "r" -> "\r"
      [] e = "t" -> "\t" [] OTHER -> e

RECURSIVE StrBody(_, _, _)
\* The characters of a string literal from index j on, acc decoded so far.
StrBody(s, j, acc) ==
    IF j > Len(s) THEN PFail
    ELSE IF s[j] = "\"" THEN POk(VStr(acc), j + 1)
    ELSE IF s[j] \in ControlChars THEN PFail
    ELSE IF s[j] = "\\" THEN
        IF j + 1 > Len(s) THEN PFail
        ELSE IF s[j + 1] \in {"\"", "\\", "/", "b", "f", "n", "r", "t"}
             THEN StrBody(s, j + 2, Append(acc, Unescape(s[j + 1])))
        ELSE IF s[j + 1] = "u" /\ j + 5 <= Len(s)
                /\ \A k \in (j + 2)..(j + 5) : s[k] \in HexDigits
             THEN StrBody(s, j + 6,
                          Append(acc, "\\u" \o s[j + 2] \o s[j + 3] \o s[j + 4] \o s[j + 5]))
        ELSE PFail
    ELSE StrBody(s, j + 1, Append(acc, s[j]))

RECURSIVE ParseValue(_, _)
RECURSIVE ArrElems(_, _, _)
RECURSIVE ObjMembers(_, _, _)

\* The elements of an array from index j on (white space skipped), acc so far.
ArrElems(s, j, acc) ==
    LET r == ParseValue(s, j)
        k == SkipSet(s, r.pos, WsJSON)
    IN IF ~r.ok \/ k > Len(s) THEN PFail
       ELSE IF s[k] = "," THEN ArrElems(s, SkipSet(s, k + 1, WsJSON), Append(acc, r.val))
       ELSE IF s[k] = "]" THEN POk(VArr(Append(acc, r.val)), k + 1)
       ELSE PFail

\* The members of an object from index j on (white space skipped), acc so far.
ObjMembers(s, j, acc) ==
    LET key == IF j <= Len(s) /\ s[j] = "\"" THEN StrBody(s, j + 1, <<>>) ELSE PFail
        c == SkipSet(s, key.pos, WsJSON)
        colon == key.ok /\ c <= Len(s) /\ s[c] = ":"
        r == ParseValue(s, SkipSet(s, c + 1, WsJSON))
        k == SkipSet(s, r.pos, WsJSON)
        put == ObjPut(acc, key.val.v, r.val)
    IN IF ~colon THEN PFail
       ELSE IF ~r.ok \/ k > Len(s) THEN PFail
       ELSE IF s[k] = "," THEN ObjMembers(s, SkipSet(s, k + 1, WsJSON), put)
       ELSE IF s[k] = "}" THEN POk(VObj(put), k + 1)
       ELSE PFail

\* One JSON value starting exactly at index i.
ParseValue(s, i) ==
    IF i < 1 \/ i > Len(s) THEN PFail
    ELSE IF s[i] = "{" THEN
        LET j == SkipSet(s, i + 1, WsJSON)
        IN IF j <= Len(s) /\ s[j] = "}" THEN POk(VObj(<<>>), j + 1)
           ELSE ObjMembers(s, j, <<>>)
    ELSE IF s[i] = "[" THEN
        LET j == SkipSet(s, i + 1, WsJSON)
        IN IF j <= Len(s) /\ s[j] = "]" THEN POk(VArr(<<>>), j + 1)
           ELSE ArrElems(s, j, <<>>)
    ELSE IF s[i] = "\"" THEN StrBody(s, i + 1, <<>>)
    ELSE IF s[i] = "-" \/ s[i] \in Digits THEN ParseNumber(s, i)
    ELSE ParseLiteral(s, i)

\* JSON.parse: one value, white space around it, nothing else.  A failure
\* (ok = FALSE) is the SyntaxError JSON.parse throws.
JSONparse(s) ==
    LET r == ParseValue(s, SkipSet(s, 1, WsJSON))
    IN IF r.ok /\ SkipSet(s, r.pos, WsJSON) > Len(s) THEN POk(r.val, r.pos) ELSE PFail

----------------------------------------------------------------------------
(* parseJSON and its helpers *)

Fence == <<BT, BT, BT>>

\* ^ under the m flag: the start of the text or just after a line terminator.
AtLineStart(s, p) == p = 1 \/ s[p - 1] \in LineTerm

\* The end of the optional (?:json|JSON) after a fence that starts at p.
AfterTag(s, p) ==
    IF StartsWithAt(s, p + 3, <<"j", "s", "o", "n">>)
       \/ StartsWithAt(s, p + 3, <<"J", "S", "O", "N">>)
    THEN p + 7 ELSE p + 3

\* raw.replace(/^```(?:json|JSON)?\s*/m, ''): the leftmost fence that starts a
\* line goes, with its tag and all the white space after it.
StripOpenFence(s) ==
    LET starts == {p \in 1..Len(s) : AtLineStart(s, p) /\ StartsWithAt(s, p, Fence)}
    IN IF starts = {} THEN s
       ELSE LET p == CHOOSE q \in starts : \A r \in starts : q <= r
                e == SkipSet(s, AfterTag(s, p), WsJS)
            IN SubSeq(s, 1, p - 1) \o SubSeq(s, e, Len(s))

\* Where the match of /```\s*$/m that starts at p ends (the index after it),
\* 0 when there is none: \s* takes all the white space when that reaches the
\* end of the text and otherwise gives back down to the last line terminator
\* of the run, before which $ holds.
CloseFenceEnd(s, p) ==
    LET e == SkipSet(s, p + 3, WsJS)
        stops == {k \in (p + 3)..(e - 1) : s[k] \in LineTerm}
    IN IF e > Len(s) THEN e
       ELSE IF stops = {} THEN 0
       ELSE CHOOSE k \in stops : \A m \in stops : m <= k

\* The same replacement without the $ anchor: the leftmost fence goes wherever
\* it stands, with the white space after it.
StripCloseFenceAnywhere(s) ==
    LET starts == {p \in 1..Len(s) : StartsWithAt(s, p, Fence)}
    IN IF starts = {} THEN s
       ELSE LET p == CHOOSE q \in starts : \A r \in starts : q <= r
            IN SubSeq(s, 1, p - 1) \o SubSeq(s, SkipSet(s, p + 3, WsJS), Len(s))

\* .replace(/```\s*$/m, ''): the leftmost fence that ends a line goes.
StripCloseFence(s) ==
    LET starts == {p \in 1..Len(s) : StartsWithAt(s, p, Fence) /\ CloseFenceEnd(s, p) # 0}
    IN IF starts = {} THEN s
       ELSE LET p == CHOOSE q \in starts : \A r \in starts : q <= r
            IN SubSeq(s, 1, p - 1) \o SubSeq(s, CloseFenceEnd(s, p), Len(s))

RECURSIVE TrimEnd(_)
TrimEnd(s) ==
    IF s # <<>> /\ s[Len(s)] \in WsJS THEN TrimEnd(SubSeq(s, 1, Len(s) - 1)) ELSE s

\* String.prototype.trim.
Trim(s) == LET t == TrimEnd(s) IN SubSeq(t, SkipSet(t, 1, WsJS), Len(t))

\* The first candidate of parseJSON.
Stripped(raw) == Trim(StripCloseFence(StripOpenFence(raw)))

NotFound == [found |-> FALSE, text |-> <<>>]

RECURSIVE Walk(_, _, _, _, _, _, _)
\* The loop of extractBalanced at index i.
Walk(text, start, open, close, i, depth, inString) ==
    CASE i > Len(text) -> NotFound
      [] i <= Len(text) /\ inString /\ text[i] = "\\"
            -> Walk(text, start, open, close, i + 2, depth, TRUE)
      [] i <= Len(text) /\ inString /\ text[i] # "\\"
            -> Walk(text, start, open, close, i + 1, depth, text[i] # "\"")
      [] i <= Len(text) /\ ~inString /\ text[i] = "\""
            -> Walk(text, start, open, close, i + 1, depth, TRUE)
      [] i <= Len(text) /\ ~inString /\ text[i] # "\"" /\ text[i] = open
            -> Walk(text, start, open, close, i + 1, depth + 1, FALSE)
      [] i <= Len(text) /\ ~inString /\ text[i] \notin {"\"", open} /\ text[i] = close
            /\ depth - 1 = 0
            -> [found |-> TRUE, text |-> SubSeq(text, start, i)]
      [] i <= Len(text) /\ ~inString /\ text[i] \notin {"\"", open} /\ text[i] = close
            /\ depth - 1 # 0
            -> Walk(text, start, open, close, i + 1, depth - 1, FALSE)
      [] OTHER -> Walk(text, start, open, close, i + 1, depth, FALSE)

RECURSIVE WalkNoStrings(_, _, _, _, _, _)
\* The same walk with no string-literal flag: every bracket counts.
WalkNoStrings(text, start, open, close, i, depth) ==
    CASE i > Len(text) -> NotFound
      [] i <= Len(text) /\ text[i] = open
            -> WalkNoStrings(text, start, open, close, i + 1, depth + 1)
      [] i <= Len(text) /\ text[i] # open /\ text[i] = close /\ depth - 1 = 0
            -> [found |-> TRUE, text |-> SubSeq(text, start, i)]
      [] i <= Len(text) /\ text[i] # open /\ text[i] = close /\ depth - 1 # 0
            -> WalkNoStrings(text, start, open, close, i + 1, depth - 1)
      [] OTHER -> WalkNoStrings(text, start, open, close, i + 1, depth)

extractBalancedNoStrings(text, start, open, close) ==
    WalkNoStrings(text, start, open, close, start, 0)

RECURSIVE WalkNoEscape(_, _, _, _, _, _, _)
\* The same walk with no skip after a backslash: an escaped quote ends the
\* string literal.
WalkNoEscape(text, start, open, close, i, depth, inString) ==
    CASE i > Len(text) -> NotFound
      [] i <= Len(text) /\ inString
            -> WalkNoEscape(text, start, open, close, i + 1, depth, text[i] # "\"")
      [] i <= Len(text) /\ ~inString /\ text[i] = "\""
            -> WalkNoEscape(text, start, open, close, i + 1, depth, TRUE)
      [] i <= Len(text) /\ ~inString /\ text[i] # "\"" /\ text[i] = open
            -> WalkNoEscape(text, start, open, close, i + 1, depth + 1, FALSE)
      [] i <= Len(text) /\ ~inString /\ text[i] \notin {"\"", open} /\ text[i] = close
            /\ depth - 1 = 0
            -> [found |-> TRUE, text |-> SubSeq(text, start, i)]
      [] i <= Len(text) /\ ~inString /\ text[i] \notin {"\"", open} /\ text[i] = close
            /\ depth - 1 # 0
            -> WalkNoEscape(text, start, open, close, i + 1, depth - 1, FALSE)
      [] OTHER -> WalkNoEscape(text, start, open, close, i + 1, depth, FALSE)

extractBalancedNoEscape(text, start, open, close) ==
    WalkNoEscape(text, start, open, close, start, 0, FALSE)

extractBalanced(text, start, open, close) == Walk(text, start, open, close, start, 0, FALSE)

\* The earlier ordering of the two starting points: the brace first, whatever
\* the positions.
PairsBraceFirst(candidate) ==
    LET objIdx == IndexOf(candidate, "{")
        arrIdx == IndexOf(candidate, "[")
    IN (IF objIdx # 0 THEN << <<objIdx, "{", "}">> >> ELSE <<>>)
       \o (IF arrIdx # 0 THEN << <<arrIdx, "[", "]">> >> ELSE <<>>)

\* The starting points of the balanced walk, the leftmost structure first.
Pairs(candidate) ==
    LET objIdx == IndexOf(candidate, "{")
        arrIdx == IndexOf(candidate, "[")
        pushed == (IF objIdx # 0 THEN << <<objIdx, "{", "}">> >> ELSE <<>>)
                  \o (IF arrIdx # 0 THEN << <<arrIdx, "[", "]">> >> ELSE <<>>)
    IN IF Len(pushed) = 2 /\ pushed[2][1] < pushed[1][1]
       THEN <<pushed[2], pushed[1]>> ELSE pushed

\* What one starting point yields: the extracted text, parsed.
FromPair(candidate, pair) ==
    LET extracted == extractBalanced(candidate, pair[1], pair[2], pair[3])
    IN IF extracted.found THEN JSONparse(extracted.text) ELSE PFail

\* The first attempt that parsed, in the order the code makes them.
FirstOk(attempts) ==
    LET hits == {k \in 1..Len(attempts) : attempts[k].ok}
    IN IF hits = {} THEN PFail
       ELSE attempts[CHOOSE k \in hits : \A m \in hits : k <= m]

\* One turn of the loop over the candidates: the direct parse, then the pairs.
TryCandidate(candidate) ==
    FirstOk(<<JSONparse(candidate)>>
            \o [k \in 1..Len(Pairs(candidate)) |-> FromPair(candidate, Pairs(candidate)[k])])

FormatErrorMsg == <<"AI returned an unexpected format. Please try again.">>

Returned(v) == [ok |-> TRUE, val |-> v, msg |-> <<>>]
Threw(m) == [ok |-> FALSE, val |-> NoVal, msg |-> m]

\* The loop over [stripped, raw]: the first candidate that yields a value.
Candidates(raw) == <<Stripped(raw), raw>>

\* What parseJSON does with the outcome of the loop: return, or the error.
Conclude(found, msg) == IF found.ok THEN Returned(found.val) ELSE Threw(msg)

\* A failure that quotes the model text in its message.
parseJSONLeaky(raw) ==
    Conclude(FirstOk([k \in 1..2 |-> TryCandidate(Candidates(raw)[k])]),
             <<"AI returned an unexpected format: ">> \o raw)

parseJSON(raw) ==
    Conclude(FirstOk([k \in 1..2 |-> TryCandidate(Candidates(raw)[k])]), FormatErrorMsg)

IsNonEmptyArray(val) == val.t = "arr" /\ Len(val.v) > 0

\* Any array-valued property will do, the empty one included.
asArrayAnyArray(parsed) ==
    IF parsed.t = "arr" THEN Returned(parsed)
    ELSE IF parsed.t = "obj" /\ \E i \in 1..Len(parsed.v) : parsed.v[i][2].t = "arr"
    THEN Returned(parsed.v[CHOOSE i \in 1..Len(parsed.v) :
                             /\ parsed.v[i][2].t = "arr"
                             /\ \A k \in 1..(i - 1) : parsed.v[k][2].t # "arr"][2])
    ELSE Threw(FormatErrorMsg)

asArray(parsed) ==
    IF parsed.t = "arr" THEN Returned(parsed)
    ELSE IF parsed.t = "obj" /\ \E i \in 1..Len(parsed.v) : IsNonEmptyArray(parsed.v[i][2])
    THEN Returned(parsed.v[CHOOSE i \in 1..Len(parsed.v) :
                             /\ IsNonEmptyArray(parsed.v[i][2])
                             /\ \A k \in 1..(i - 1) : ~IsNonEmptyArray(parsed.v[k][2])][2])
    ELSE Threw(FormatErrorMsg)

----------------------------------------------------------------------------
(* The texts parseJSON is applied to *)

\* Valid JSON texts: arrays, objects (wrapped arrays, index keys, brackets and
\* escaped quotes inside a string, backticks inside a string), primitives.
J_Arr1 ==
    <<"[", "1", "]">>
J_IdArr ==
    <<"[", "{", "\"", "i", "d", "\"", ":", "\"", "1", "\"", "}", "]">>
J_EmptyArr ==
    <<"[", "]">>
J_Spaced ==
    <<"[", " ", "1", " ", ",", "\n", "2", " ", "]">>
J_TickStr ==
    <<"[", "\"", BT, BT, BT, "\"", "]">>
J_Days ==
    <<"{", "\"", "d", "a", "y", "s", "\"", ":", "[", "]", "}">>
J_Items ==
    <<"{", "\"", "n", "\"", ":", "1", ",", "\"", "i", "t", "e", "m", "s", "\"", ":", "[", "1",
      ",", "2", "]", "}">>
J_TwoArrs ==
    <<"{", "\"", "x", "\"", ":", "[", "]", ",", "\"", "y", "\"", ":", "[", "2", "]", ",", "\"",
      "z", "\"", ":", "[", "3", "]", "}">>
J_IndexKeys ==
    <<"{", "\"", "b", "\"", ":", "[", "1", "]", ",", "\"", "1", "\"", ":", "[", "2", "]", "}">>
J_Nested ==
    <<"{", "\"", "a", "\"", ":", "{", "\"", "b", "\"", ":", "[", "3", "]", "}", "}">>
J_Brackets ==
    <<"{", "\"", "s", "\"", ":", "\"", "]", "x", "}", " ", "\\", "\"", "q", "\"", "}">>
J_OpenInStr ==
    <<"[", "\"", "[", "{", "\"", ",", "{", "\"", "k", "\"", ":", "\"", "\\", "\\", "\"", "}",
      "]">>
J_Num ==
    <<"1">>
J_Str ==
    <<"\"", "h", "i", "\"">>
J_Null ==
    <<"n", "u", "l", "l">>
P_Hi ==
    <<"H", "i", ":", " ">>
P_Example ==
    <<"S", "u", "r", "e", "!", " ", "H", "e", "r", "e", " ", "i", "s", " ", "y", "o", "u", "r",
      " ", "d", "a", "t", "a", ":", "\n", BT, BT, BT, "j", "s", "o", "n", "\n">>
P_OpenBracket ==
    <<"s", "e", "e", " ", "[", " ">>
P_OpenBrace ==
    <<"x", " ", "{", " ">>
P_CloseBracket ==
    <<"n", "o", "t", "e", "]", " ">>
P_Quote ==
    <<"\"">>
P_InlineFence ==
    <<"o", "k", " ", BT, BT, BT, "j", "s", "o", "n", "\n">>
A_Cites ==
    <<" ", "[", "1", "]", "[", "2", "]">>
A_Example ==
    <<"\n", BT, BT, BT, "\n", "S", "o", "u", "r", "c", "e", ":", " ", "[", "1", "]">>
A_Done ==
    <<" ", "D", "o", "n", "e", ".">>
A_Quote ==
    <<"\"">>
A_CloseBrace ==
    <<" ", "}">>
A_CloseBracket ==
    <<"]">>

JsonTexts ==
    {J_Arr1, J_IdArr, J_EmptyArr, J_Spaced, J_TickStr, J_Days, J_Items, J_TwoArrs,
     J_IndexKeys, J_Nested, J_Brackets, J_OpenInStr, J_Num, J_Str, J_Null}

ProseBefores ==
    {<<>>, P_Hi, P_Example, P_OpenBracket, P_OpenBrace, P_CloseBracket, P_Quote,
     P_InlineFence}

ProseAfters == {<<>>, A_Cites, A_Example, A_Done, A_Quote, A_CloseBrace, A_CloseBracket}

\* The longest run of padding white space around a text.
MaxPad == 1
\* The longest text of the exhaustive part.
MaxLen == 3

SeqsUpTo(set, n) == UNION {[1..k -> set] : k \in 0..n}

WsRuns == SeqsUpTo({" ", "\n"}, MaxPad)

FenceTags == {<<>>, <<"j", "s", "o", "n">>, <<"J", "S", "O", "N">>}

\* Leading white space, the opening fence, its tag, the end of its line.
FencedBefores == {lead \o Fence \o tag \o <<"\n">> : lead \in WsRuns, tag \in FenceTags}

\* The end of the last line of j, the closing fence, trailing white space.
FencedAfters == {<<"\n">> \o Fence \o trail : trail \in WsRuns}

\* Every text of at most MaxLen characters over the structural characters.
ShortTexts == SeqsUpTo({"[", "]", "{", "}", "\"", "1", BT, "\n"}, MaxLen)

Inputs ==
    (ProseBefores \X JsonTexts \X ProseAfters)
    \cup (FencedBefores \X JsonTexts \X FencedAfters)
    \cup (WsRuns \X JsonTexts \X WsRuns)
    \cup ({<<>>} \X ShortTexts \X {<<>>})

\* The raw text handed to parseJSON.
Raw == before \o jtxt \o after

NotRun == [ok |-> FALSE, val |-> NoVal, msg |-> <<"not run">>]

----------------------------------------------------------------------------
(* SpecParse: asArray(parseJSON(text)), as generateItinerary and            *)
(* generatePackingList apply them                                           *)

RouterIdle ==
    /\ snap = "none"
    /\ anthropicKey = ""
    /\ perplexityKey = ""
    /\ context = <<>>
    /\ pc = "idle"
    /\ claudeResp = <<>>
    /\ pplxResp = <<>>
    /\ claudeCalls = 0
    /\ pplxCalls = 0
    /\ pplxContent = <<>>
    /\ claudeContent = <<>>
    /\ thrown = <<>>
    /\ events = <<>>
    /\ outcome = <<>>

\* No listener registered, nothing logged.
SlotIdle ==
    /\ activityListener = "null"
    /\ logListener = "null"
    /\ entries = <<>>
    /\ delivered = <<>>
    /\ returned = ""
    /\ trace = <<>>

\* An itinerary and a packing list: who generated it (0: it was there when
\* the trip was opened) and whether it was edited by hand since.
Itin(by, edited) == [by |-> by, edited |-> edited]
Pack(by, packed) == [by |-> by, packed |-> packed]
Trip0 == [itinerary |-> Itin(0, FALSE), packingList |-> Pack(0, FALSE)]

\* The trip just opened on its overview tab, nothing in flight.
AppIdle ==
    /\ trips = Trip0
    /\ selectedTrip = Trip0
    /\ stored = Trip0
    /\ writes = <<>>
    /\ saves = <<>>
    /\ tasks = <<>>
    /\ activeTab = "overview"
    /\ inst = 0
    /\ loading = FALSE

\* The chat tab not shown, nothing stored, nothing sent.
ChatIdle ==
    /\ chatStored = <<>>
    /\ chatShown = FALSE
    /\ chatMount = 0
    /\ chatMessages = <<>>
    /\ chatLoading = FALSE
    /\ loadPending = FALSE
    /\ sends = <<>>

UiIdle == SlotIdle /\ AppIdle /\ ChatIdle

\* No domain function has been called.
DomainIdle ==
    /\ calls = <<>>
    /\ log = <<>>
    /\ host = 0

ParseInit ==
    /\ \E inp \in Inputs : before = inp[1] /\ jtxt = inp[2] /\ after = inp[3]
    /\ out = NotRun
    /\ arr = NotRun
    /\ RouterIdle
    /\ DomainIdle
    /\ UiIdle

RunParseJSON ==
    /\ out = NotRun
    /\ out' = parseJSON(Raw)
    /\ UNCHANGED <<before, jtxt, after, arr, routerVars, domainVars, uiVars>>

RunAsArray ==
    /\ out.ok
    /\ arr = NotRun
    /\ arr' = asArray(out.val)
    /\ UNCHANGED <<before, jtxt, after, out, routerVars, domainVars, uiVars>>

ParseNext == RunParseJSON \/ RunAsArray

SpecParse == ParseInit /\ [][ParseNext]_vars

----------------------------------------------------------------------------
(* Claims about parseJSON and asArray, checked under SpecParse *)

Ran == out # NotRun

\* parseJSON returned the value JSON.parse gives for text.
Recovers(text) == out.ok /\ out.val = JSONparse(text).val

C2_Fenced ==
    (Ran /\ before \in FencedBefores /\ after \in FencedAfters /\ JSONparse(jtxt).ok)
        => Recovers(jtxt)

\* No bracket of text-before opens a balanced structure in the raw text.
NoBalancedBefore ==
    \A p \in 1..Len(before) :
        /\ before[p] = "{" => ~extractBalanced(Raw, p, "{", "}").found
        /\ before[p] = "[" => ~extractBalanced(Raw, p, "[", "]").found

LeftmostArray == extractBalanced(Raw, IndexOf(Raw, "["), "[", "]")

IsArrayOfObjects(val) ==
    val.t = "arr" /\ Len(val.v) > 0 /\ \A i \in 1..Len(val.v) : val.v[i].t = "obj"

\* C4: when the direct parse fails, a text whose leftmost '[' precedes its
\* leftmost '{' and opens a valid JSON array of objects yields that whole
\* array, never its first child object.
C4_LeftmostFirst ==
    (/\ Ran
     /\ ~JSONparse(Stripped(Raw)).ok
     /\ IndexOf(Raw, "[") # 0
     /\ IndexOf(Raw, "[") < IndexOf(Raw, "{")
     /\ LeftmostArray.found
     /\ JSONparse(LeftmostArray.text).ok
     /\ IsArrayOfObjects(JSONparse(LeftmostArray.text).val))
        => Recovers(LeftmostArray.text)

\* Prose, the fenced array of one object and 'Source: [1]' gave the array.
C4_Witness ==
    /\ Ran
    /\ before = P_Example /\ jtxt = J_IdArr /\ after = A_Example
    /\ out.ok
    /\ out.val = VArr(<<VObj(<< <<(<<"i", "d">>), VStr(<<"1">>)>> >>)>>)

\* Every text parseJSON hands to JSON.parse.
CandidateTexts(raw) ==
    UNION {{c} \cup {extractBalanced(c, Pairs(c)[k][1], Pairs(c)[k][2], Pairs(c)[k][3]).text :
                       k \in 1..Len(Pairs(c))} : c \in {Stripped(raw), raw}}

\* C5: parseJSON returns what JSON.parse made of one of its candidates, or
\* throws the one fixed message, which holds nothing of the raw text.
C5_ValueOrFixedError ==
    Ran => \/ /\ out.ok
              /\ \E c \in CandidateTexts(Raw) : JSONparse(c).ok /\ JSONparse(c).val = out.val
           \/ /\ ~out.ok
              /\ out.val = NoVal
              /\ out.msg = FormatErrorMsg

\* A number after prose has nothing to extract: the fixed error.
C5_Witness ==
    /\ Ran
    /\ before = P_Hi /\ jtxt = J_Num /\ after = <<>>
    /\ ~out.ok /\ out.msg = FormatErrorMsg

AsArrayRan == arr # NotRun

\* The indices of the non-empty array values among the properties of an object.
ArrayProps(val) == {i \in 1..Len(val.v) : val.v[i][2].t = "arr" /\ val.v[i][2].v # <<>>}

\* C6: asArray returns an array unchanged (the empty one too); of an object
\* it returns the first property value, in enumeration order, that is a
\* non-empty array; anything else throws the format error.
C6_AsArray ==
    AsArrayRan =>
        LET p == out.val
        IN CASE p.t = "arr" -> arr = Returned(p)
             [] p.t = "obj" /\ ArrayProps(p) # {} ->
                    \E i \in ArrayProps(p) :
                        /\ \A k \in ArrayProps(p) : i <= k
                        /\ arr = Returned(p.v[i][2])
             [] OTHER -> arr = Threw(FormatErrorMsg)

\* {"x":[],"y":[2],"z":[3]} gave [2]: the empty array was passed over.
C6_Witness ==
    /\ AsArrayRan
    /\ jtxt = J_TwoArrs
    /\ arr = Returned(VArr(<<VNum(<<"2">>)>>))

----------------------------------------------------------------------------
(* The transport clients, the content builder and callGeneration *)

InvalidKeyMsg ==
    <<"I", "n", "v", "a", "l", "i", "d", " ", "C", "l", "a", "u", "d", "e", " ", "A", "P", "I",
      " ", "k", "e", "y", " ", EMDASH, " ", "p", "l", "e", "a", "s", "e", " ", "c", "h", "e",
      "c", "k", " ", "y", "o", "u", "r", " ", "A", "n", "t", "h", "r", "o", "p", "i", "c", " ",
      "k", "e", "y", " ", "i", "n", " ", "S", "e", "t", "t", "i", "n", "g", "s", ".">>
InvalidKeyNeedle ==
    <<"I", "n", "v", "a", "l", "i", "d", " ", "C", "l", "a", "u", "d", "e", " ", "A", "P", "I",
      " ", "k", "e", "y">>
NoTextMsg ==
    <<"N", "o", " ", "t", "e", "x", "t", " ", "c", "o", "n", "t", "e", "n", "t", " ", "i", "n",
      " ", "C", "l", "a", "u", "d", "e", " ", "r", "e", "s", "p", "o", "n", "s", "e">>
ConfigErrorMsg ==
    <<"A", "n", " ", "A", "n", "t", "h", "r", "o", "p", "i", "c", " ", "(", "C", "l", "a", "u",
      "d", "e", ")", " ", "A", "P", "I", " ", "k", "e", "y", " ", "i", "s", " ", "r", "e", "q",
      "u", "i", "r", "e", "d", " ", "t", "o", " ", "g", "e", "n", "e", "r", "a", "t", "e", " ",
      "c", "o", "n", "t", "e", "n", "t", ".", " ", "P", "l", "e", "a", "s", "e", " ", "a", "d",
      "d", " ", "i", "t", " ", "i", "n", " ", "S", "e", "t", "t", "i", "n", "g", "s", ".">>
ClaudeErrorPrefix ==
    <<"C", "l", "a", "u", "d", "e", " ", "A", "P", "I", " ", "e", "r", "r", "o", "r", " ">>
PplxErrorPrefix ==
    <<"P", "e", "r", "p", "l", "e", "x", "i", "t", "y", " ", "A", "P", "I", " ", "e", "r", "r",
      "o", "r", " ">>
FailedToFetch ==
    <<"F", "a", "i", "l", "e", "d", " ", "t", "o", " ", "f", "e", "t", "c", "h">>
UserNotesPrefix ==
    <<"U", "s", "e", "r", " ", "n", "o", "t", "e", "s", ":", " ">>
M_XApiKey ==
    <<"i", "n", "v", "a", "l", "i", "d", " ", "x", "-", "a", "p", "i", "-", "k", "e", "y">>
M_Authentication ==
    <<"A", "u", "t", "h", "e", "n", "t", "i", "c", "a", "t", "i", "o", "n", " ", "f", "a", "i",
      "l", "e", "d">>
M_Overloaded ==
    <<"O", "v", "e", "r", "l", "o", "a", "d", "e", "d">>
M_Req4401 ==
    <<"O", "v", "e", "r", "l", "o", "a", "d", "e", "d", " ", "(", "r", "e", "q", " ", "4", "4",
      "0", "1", ")">>
M_RateLimited ==
    <<"R", "a", "t", "e", " ", "l", "i", "m", "i", "t", "e", "d">>
Prompt ==
    <<"P", "l", "a", "n", ".">>
Notes ==
    <<"v", "e", "g", "a", "n">>
ClaudeText ==
    <<"{", "\"", "n", "a", "m", "e", "\"", ":", "\"", "c", "\"", "}">>
PplxText ==
    <<"{", "\"", "n", "a", "m", "e", "\"", ":", "\"", "p", "\"", "}">>
MimePng ==
    <<"i", "m", "a", "g", "e", "/", "p", "n", "g">>
MimePdf ==
    <<"a", "p", "p", "l", "i", "c", "a", "t", "i", "o", "n", "/", "p", "d", "f">>
MimePlain ==
    <<"t", "e", "x", "t", "/", "p", "l", "a", "i", "n">>
MimeMarkdown ==
    <<"t", "e", "x", "t", "/", "m", "a", "r", "k", "d", "o", "w", "n">>

UpperCase ==
    <<"A", "B", "C", "D", "E", "F", "G", "H", "I", "J", "K", "L", "M", "N", "O", "P", "Q",
      "R", "S", "T", "U", "V", "W", "X", "Y", "Z">>
LowerCase ==
    <<"a", "b", "c", "d", "e", "f", "g", "h", "i", "j", "k", "l", "m", "n", "o", "p", "q",
      "r", "s", "t", "u", "v", "w", "x", "y", "z">>

\* String.prototype.toLowerCase.
ToLowerCase(s) ==
    [i \in 1..Len(s) |->
        IF \E k \in 1..Len(UpperCase) : UpperCase[k] = s[i]
        THEN LowerCase[CHOOSE k \in 1..Len(UpperCase) : UpperCase[k] = s[i]]
        ELSE s[i]]

DigitChar(d) == <<"0", "1", "2", "3", "4", "5", "6", "7", "8", "9">>[d + 1]

RECURSIVE DigitsOf(_)
\* A status code interpolated into a template string.
DigitsOf(n) == IF n < 10 THEN <<DigitChar(n)>> ELSE Append(DigitsOf(n \div 10), DigitChar(n % 10))

\* An HTTP exchange as the clients see it: net = FALSE when fetch itself
\* rejects; message is err.error.message, empty when the error body does not
\* parse or carries none; text is the completion, hasText whether the Claude
\* response holds a block of type text.
Response(net, status, message, hasText, text) ==
    [net |-> net, status |-> status, message |-> message, hasText |-> hasText, text |-> text]

NoResponse == Response(FALSE, 0, <<>>, FALSE, <<>>)

\* res.ok
ResOk(resp) == resp.status >= 200 /\ resp.status <= 299

\* The client that tells a rejected key by the status alone.
callClaudeStatusOnly(resp) ==
    IF ~resp.net THEN Threw(FailedToFetch)
    ELSE IF ~ResOk(resp) THEN
        (IF resp.status = 401 THEN Threw(InvalidKeyMsg)
         ELSE IF resp.message # <<>> THEN Threw(resp.message)
         ELSE Threw(ClaudeErrorPrefix \o DigitsOf(resp.status)))
    ELSE IF resp.hasText THEN Returned(resp.text)
    ELSE Threw(NoTextMsg)

\* callClaude from the response on: the text of the first text block, or the
\* error it throws.
callClaude(resp) ==
    IF ~resp.net THEN Threw(FailedToFetch)
    ELSE IF ~ResOk(resp) THEN
        LET raw == IF resp.message # <<>> THEN resp.message
                   ELSE ClaudeErrorPrefix \o DigitsOf(resp.status)
        IN IF \/ resp.status = 401
              \/ Includes(ToLowerCase(raw), <<"a", "p", "i", "-", "k", "e", "y">>)
              \/ Includes(ToLowerCase(raw),
                          <<"a", "u", "t", "h", "e", "n", "t", "i", "c", "a", "t", "i", "o", "n">>)
           THEN Threw(InvalidKeyMsg)
           ELSE Threw(raw)
    ELSE IF resp.hasText THEN Returned(resp.text)
    ELSE Threw(NoTextMsg)

\* callPerplexity from the response on.
callPerplexity(resp) ==
    IF ~resp.net THEN Threw(FailedToFetch)
    ELSE IF ~ResOk(resp) THEN
        Threw(IF resp.message # <<>> THEN resp.message
              ELSE PplxErrorPrefix \o DigitsOf(resp.status))
    ELSE Returned(resp.text)

\* atob over the payloads of the model: one decodes, the other is not base64.
B64Hi == "aGk="
B64Bad == "%%%"
Atob(data) ==
    IF data = B64Hi THEN Returned(<<"h", "i">>)
    ELSE IF data = "eW8=" THEN Returned(<<"y", "o">>)
    ELSE IF data = "iVBORw==" THEN Returned(<<"P", "N", "G">>)
    ELSE IF data = "JVBERi0=" THEN Returned(<<"%", "P", "D", "F", "-">>)
    ELSE Threw(<<"InvalidCharacterError">>)

File(name, mimeType, dataBase64) ==
    [name |-> name, mimeType |-> mimeType, dataBase64 |-> dataBase64]

IsImage(f) == StartsWithAt(f.mimeType, 1, <<"i", "m", "a", "g", "e", "/">>)
IsPdf(f) == f.mimeType = MimePdf
IsText(f) == f.mimeType = MimePlain \/ f.mimeType = MimeMarkdown

RECURSIVE FilesTextKeepsHeader(_)
\* The loop that writes the header before it decodes: a file that does not
\* decode leaves its header behind.
FilesTextKeepsHeader(txtFiles) ==
    IF txtFiles = <<>> THEN <<>>
    ELSE LET f == Head(txtFiles)
             header == <<"-", "-", "-", " ">> \o f.name \o <<" ", "-", "-", "-", "\n">>
             piece == IF Atob(f.dataBase64).ok
                      THEN header \o Atob(f.dataBase64).val \o <<"\n", "\n">>
                      ELSE header
         IN piece \o FilesTextKeepsHeader(Tail(txtFiles))

RECURSIVE FilesText(_)
\* The loop over txtFiles: each file under its header, a file whose data does
\* not decode skipped whole.
FilesText(txtFiles) ==
    IF txtFiles = <<>> THEN <<>>
    ELSE LET f == Head(txtFiles)
             piece == IF Atob(f.dataBase64).ok
                      THEN <<"-", "-", "-", " ">> \o f.name \o <<" ", "-", "-", "-", "\n">>
                           \o Atob(f.dataBase64).val \o <<"\n", "\n">>
                      ELSE <<>>
         IN piece \o FilesText(Tail(txtFiles))

NotesText(ctx) ==
    IF ctx.text # <<>> THEN UserNotesPrefix \o ctx.text \o <<"\n", "\n">> ELSE <<>>

StringContent(text) == [kind |-> "string", text |-> text, blocks |-> <<>>]
BlockContent(blocks) == [kind |-> "blocks", text |-> <<>>, blocks |-> blocks]
Block(type, mediaType, data, text) ==
    [type |-> type, media_type |-> mediaType, data |-> data, text |-> text]

ImageBlock(f) == Block("image", f.mimeType, f.dataBase64, <<>>)
DocumentBlock(f) == Block("document", MimePdf, f.dataBase64, <<>>)

\* The builder that puts the text files ahead of the notes.
buildClaudeContentFilesFirst(prompt, ctx) ==
    IF ctx.text = <<>> /\ ctx.files = <<>> THEN StringContent(prompt)
    ELSE LET imgFiles == SelectSeq(ctx.files, IsImage)
             pdfFiles == SelectSeq(ctx.files, IsPdf)
             text == FilesText(SelectSeq(ctx.files, IsText)) \o NotesText(ctx) \o prompt
         IN IF imgFiles = <<>> /\ pdfFiles = <<>> THEN StringContent(text)
            ELSE BlockContent([i \in 1..Len(imgFiles) |-> ImageBlock(imgFiles[i])]
                              \o [i \in 1..Len(pdfFiles) |-> DocumentBlock(pdfFiles[i])]
                              \o <<Block("text", <<>>, "", text)>>)

\* The builder that pushes the binary blocks in the order of the input.
buildClaudeContentInputOrder(prompt, ctx) ==
    IF ctx.text = <<>> /\ ctx.files = <<>> THEN StringContent(prompt)
    ELSE LET binFiles == SelectSeq(ctx.files, LAMBDA f : IsImage(f) \/ IsPdf(f))
             text == NotesText(ctx) \o FilesText(SelectSeq(ctx.files, IsText)) \o prompt
         IN IF binFiles = <<>> THEN StringContent(text)
            ELSE BlockContent([i \in 1..Len(binFiles) |->
                                  IF IsImage(binFiles[i]) THEN ImageBlock(binFiles[i])
                                  ELSE DocumentBlock(binFiles[i])]
                              \o <<Block("text", <<>>, "", text)>>)

buildClaudeContent(prompt, ctx) ==
    IF ctx.text = <<>> /\ ctx.files = <<>> THEN StringContent(prompt)
    ELSE LET imgFiles == SelectSeq(ctx.files, IsImage)
             pdfFiles == SelectSeq(ctx.files, IsPdf)
             txtFiles == SelectSeq(ctx.files, IsText)
             text == NotesText(ctx) \o FilesText(txtFiles) \o prompt
         IN IF imgFiles = <<>> /\ pdfFiles = <<>> THEN StringContent(text)
            ELSE BlockContent([i \in 1..Len(imgFiles) |-> ImageBlock(imgFiles[i])]
                              \o [i \in 1..Len(pdfFiles) |-> DocumentBlock(pdfFiles[i])]
                              \o <<Block("text", <<>>, "", text)>>)

\* The user message the earlier callGeneration sends to Perplexity.
PerplexityText(prompt, ctx) ==
    FilesText(SelectSeq(ctx.files, IsText))
    \o (IF ctx.text # <<>> THEN UserNotesPrefix \o ctx.text \o <<"\n", "\n">> \o prompt
        ELSE prompt)

\* isAuthError of the earlier callGeneration.
isAuthError(msg) == Includes(msg, InvalidKeyNeedle) \/ Includes(msg, <<"4", "0", "1">>)

\* The guard that lets every key through.
MissingKeyNever(key) == FALSE

\* The guard of the current callGeneration: no Claude key, no call.
MissingKey(key) == key = ""

\* The truthiness test that takes the empty key for a key.
HasKeyAlways(key) == TRUE

\* if (anthropicKey) of the earlier callGeneration: the empty string is falsy.
HasKey(key) == key # ""

FallbackMsg ==
    <<"C", "l", "a", "u", "d", "e", " ", "k", "e", "y", " ", "i", "n", "v", "a", "l", "i", "d",
      " ", EMDASH, " ", "u", "s", "i", "n", "g", " ", "P", "e", "r", "p", "l", "e", "x", "i",
      "t", "y">>

\* The activity event the earlier callGeneration logs when it falls back.
FallbackEvent == [message |-> FallbackMsg, status |-> "pending"]

Pending == [settled |-> "pending", val |-> <<>>]
Resolved(text) == [settled |-> "resolved", val |-> text]
Rejected(msg) == [settled |-> "rejected", val |-> msg]

\* How a promise settles with what a transport client returned or threw.
Settle(r) == IF r.ok THEN Resolved(r.val) ELSE Rejected(r.msg)

----------------------------------------------------------------------------
(* Spec: one callGeneration request *)

\* The most files a context carries.
MaxFiles == 2

FileKinds ==
    {File(<<"a", ".", "p", "n", "g">>, MimePng, "iVBORw=="),
     File(<<"b", ".", "p", "d", "f">>, MimePdf, "JVBERi0="),
     File(<<"t", ".", "t", "x", "t">>, MimePlain, B64Hi),
     File(<<"m", ".", "m", "d">>, MimeMarkdown, "eW8="),
     File(<<"x", ".", "t", "x", "t">>, MimePlain, B64Bad)}

Contexts == [text : {<<>>, Notes}, files : SeqsUpTo(FileKinds, MaxFiles)]

ClaudeResponses ==
    {Response(TRUE, 200, <<>>, TRUE, ClaudeText),
     Response(TRUE, 200, <<>>, FALSE, <<>>),
     Response(TRUE, 401, <<>>, FALSE, <<>>),
     Response(TRUE, 400, M_XApiKey, FALSE, <<>>),
     Response(TRUE, 403, M_Authentication, FALSE, <<>>),
     Response(TRUE, 529, M_Overloaded, FALSE, <<>>),
     Response(TRUE, 529, M_Req4401, FALSE, <<>>),
     Response(TRUE, 500, <<>>, FALSE, <<>>),
     NoResponse}

PplxResponses ==
    {Response(TRUE, 200, <<>>, TRUE, PplxText),
     Response(TRUE, 401, <<>>, FALSE, <<>>),
     Response(TRUE, 429, M_RateLimited, FALSE, <<>>),
     NoResponse}

ParseIdle ==
    /\ before = <<>>
    /\ jtxt = <<>>
    /\ after = <<>>
    /\ out = NotRun
    /\ arr = NotRun

Init ==
    /\ snap \in {"current", "earlier"}
    /\ anthropicKey \in {"", "sk-ant-1"}
    /\ perplexityKey \in {"", "pplx-1"}
    /\ context \in Contexts
    /\ pc = "start"
    /\ claudeResp = NoResponse
    /\ pplxResp = NoResponse
    /\ claudeCalls = 0
    /\ pplxCalls = 0
    /\ pplxContent = <<>>
    /\ claudeContent = StringContent(<<>>)
    /\ thrown = <<>>
    /\ events = <<>>
    /\ outcome = Pending
    /\ ParseIdle
    /\ DomainIdle
    /\ UiIdle

\* fetch(CLAUDE_URL, ...) with the built content as the user message.
FetchClaude ==
    /\ claudeContent' = buildClaudeContent(Prompt, context)
    /\ claudeCalls' = claudeCalls + 1
    /\ pc' = "awaitClaude"
    /\ UNCHANGED <<pplxCalls, pplxContent, outcome>>

\* fetch(PPLX_URL, ...) with one user message, the enriched prompt.
FetchPerplexity ==
    /\ pplxContent' = <<[role |-> "user", content |-> PerplexityText(Prompt, context)]>>
    /\ pplxCalls' = pplxCalls + 1
    /\ pc' = "awaitPplx"
    /\ UNCHANGED <<claudeCalls, claudeContent, outcome>>

Finish(o) ==
    /\ outcome' = o
    /\ pc' = "done"
    /\ UNCHANGED <<claudeCalls, pplxCalls, claudeContent, pplxContent>>

\* The current callGeneration (Claude only) up to its await.
callGeneration ==
    /\ snap = "current"
    /\ pc = "start"
    /\ IF MissingKey(anthropicKey) THEN Finish(Rejected(ConfigErrorMsg)) ELSE FetchClaude
    /\ UNCHANGED <<snap, anthropicKey, perplexityKey, context, claudeResp, pplxResp, thrown,
                   events, parseVars, domainVars, uiVars>>

\* The current callGeneration once Claude has answered: callClaude's result
\* is the result.
callGenerationSettles ==
    /\ snap = "current"
    /\ pc = "awaitClaude"
    /\ \E resp \in ClaudeResponses :
        /\ claudeResp' = resp
        /\ thrown' = IF callClaude(resp).ok THEN <<>> ELSE callClaude(resp).msg
        /\ Finish(Settle(callClaude(resp)))
    /\ UNCHANGED <<snap, anthropicKey, perplexityKey, context, pplxResp, events, parseVars, domainVars, uiVars>>

\* The earlier callGeneration (two keys) up to its first await.
callGenerationEarlier ==
    /\ snap = "earlier"
    /\ pc = "start"
    /\ IF HasKey(anthropicKey) THEN FetchClaude ELSE FetchPerplexity
    /\ UNCHANGED <<snap, anthropicKey, perplexityKey, context, claudeResp, pplxResp, thrown,
                   events, parseVars, domainVars, uiVars>>

\* The retry a fallback must not make: after a failure, Claude again.
FallBackAndRetry(msg) ==
    /\ events' = Append(events, FallbackEvent)
    /\ claudeContent' = buildClaudeContent(Prompt, context)
    /\ claudeCalls' = claudeCalls + 1
    /\ pplxContent' = <<[role |-> "user", content |-> PerplexityText(Prompt, context)]>>
    /\ pplxCalls' = pplxCalls + 1
    /\ pc' = "awaitPplx"
    /\ UNCHANGED outcome

\* The fallback that logs nothing.
FallBackSilent(msg) ==
    /\ FetchPerplexity
    /\ UNCHANGED events

\* The catch block once the error is an auth error and a Perplexity key is
\* there: the activity event, then the Perplexity path.
FallBack(msg) ==
    /\ events' = Append(events, FallbackEvent)
    /\ FetchPerplexity

\* The earlier callGeneration once Claude has answered: the text, the error,
\* or the fallback.
callGenerationEarlierCatch ==
    /\ snap = "earlier"
    /\ pc = "awaitClaude"
    /\ \E resp \in ClaudeResponses :
        /\ claudeResp' = resp
        /\ thrown' = IF callClaude(resp).ok THEN <<>> ELSE callClaude(resp).msg
        /\ IF callClaude(resp).ok
           THEN Finish(Resolved(callClaude(resp).val)) /\ UNCHANGED events
           ELSE IF ~isAuthError(callClaude(resp).msg) \/ ~HasKey(perplexityKey)
           THEN Finish(Rejected(callClaude(resp).msg)) /\ UNCHANGED events
           ELSE FallBack(callClaude(resp).msg)
    /\ UNCHANGED <<snap, anthropicKey, perplexityKey, context, pplxResp, parseVars, domainVars, uiVars>>

\* The earlier callGeneration once Perplexity has answered: callPerplexity's
\* result is the result.
callGenerationEarlierSettles ==
    /\ snap = "earlier"
    /\ pc = "awaitPplx"
    /\ \E resp \in PplxResponses :
        /\ pplxResp' = resp
        /\ Finish(Settle(callPerplexity(resp)))
    /\ UNCHANGED <<snap, anthropicKey, perplexityKey, context, claudeResp, thrown, events,
                   parseVars, domainVars, uiVars>>

Next ==
    \/ callGeneration
    \/ callGenerationSettles
    \/ callGenerationEarlier
    \/ callGenerationEarlierCatch
    \/ callGenerationEarlierSettles

Spec == Init /\ [][Next]_vars

----------------------------------------------------------------------------
(* The domain functions: dates and post-processing of generateItinerary *)

IsLeap(y) == (y % 4 = 0 /\ y % 100 # 0) \/ y % 400 = 0

DaysInMonth(y, m) ==
    IF m = 2 THEN (IF IsLeap(y) THEN 29 ELSE 28)
    ELSE IF m \in {4, 6, 9, 11} THEN 30 ELSE 31

\* new Date(text) for a date-time text without an offset: that wall-clock
\* time in the browser's zone.
NewDate(text) ==
    [y |-> KeyNum(SubSeq(text, 1, 4)), m |-> KeyNum(SubSeq(text, 6, 7)),
     d |-> KeyNum(SubSeq(text, 9, 10)), h |-> KeyNum(SubSeq(text, 12, 13))]

RECURSIVE Normalise(_)
\* A day of the month outside its month rolls over into the months around it.
Normalise(t) ==
    IF t.d > DaysInMonth(t.y, t.m)
    THEN Normalise([y |-> IF t.m = 12 THEN t.y + 1 ELSE t.y,
                    m |-> IF t.m = 12 THEN 1 ELSE t.m + 1,
                    d |-> t.d - DaysInMonth(t.y, t.m), h |-> t.h])
    ELSE IF t.d < 1
    THEN LET py == IF t.m = 1 THEN t.y - 1 ELSE t.y
             pm == IF t.m = 1 THEN 12 ELSE t.m - 1
         IN Normalise([y |-> py, m |-> pm, d |-> t.d + DaysInMonth(py, pm), h |-> t.h])
    ELSE t

\* d.setDate(d.getDate() + i)
SetDate(t, i) == Normalise([t EXCEPT !.d = t.d + i])

\* The same instant on the UTC clock, for a browser offset hours ahead of UTC.
ToUTC(t, offset) ==
    Normalise([t EXCEPT !.h = (t.h - offset) % 24, !.d = t.d + ((t.h - offset) \div 24)])

Pad2(n) == IF n < 10 THEN <<"0">> \o DigitsOf(n) ELSE DigitsOf(n)

\* d.toISOString().split('T')[0]
ToISODate(t, offset) ==
    DigitsOf(ToUTC(t, offset).y) \o <<"-">> \o Pad2(ToUTC(t, offset).m)
    \o <<"-">> \o Pad2(ToUTC(t, offset).d)

\* The date generateItinerary gives the day of index i.
DayDate(startDate, i, offset) ==
    ToISODate(SetDate(NewDate(startDate \o <<"T", "1", "2", ":", "0", "0", ":", "0", "0">>), i),
              offset)

K_Date == <<"d", "a", "t", "e">>
K_Activities == <<"a", "c", "t", "i", "v", "i", "t", "i", "e", "s">>

\* { ...day }: the own enumerable properties of the value.
Spread(day) ==
    IF day.t = "obj" THEN day.v
    ELSE IF day.t = "arr" THEN [k \in 1..Len(day.v) |-> <<DigitsOf(k - 1), day.v[k]>>]
    ELSE IF day.t = "str" THEN [k \in 1..Len(day.v) |-> <<DigitsOf(k - 1), VStr(<<day.v[k]>>)>>]
    ELSE <<>>

\* value.key for a key that is no index and no built-in: undefined unless an
\* object holds it.
GetProp(value, key) ==
    IF value.t = "obj" /\ \E i \in 1..Len(value.v) : value.v[i][1] = key
    THEN value.v[CHOOSE i \in 1..Len(value.v) : value.v[i][1] = key][2]
    ELSE NoVal

\* The map callback that keeps whatever activities the day came with.
MapDayKeepsActivities(day, i, startDate, offset) ==
    VObj(ObjPut(ObjPut(Spread(day), K_Date, VStr(DayDate(startDate, i, offset))),
                K_Activities, GetProp(day, K_Activities)))

\* The map callback: the day with its date recomputed and its activities an
\* array.
MapDay(day, i, startDate, offset) ==
    VObj(ObjPut(ObjPut(Spread(day), K_Date, VStr(DayDate(startDate, i, offset))),
                K_Activities,
                IF GetProp(day, K_Activities).t = "arr" THEN GetProp(day, K_Activities)
                ELSE VArr(<<>>)))

\* day != null
NotNullish(day) == day.t # "null" /\ day.t # "undefined"

\* .filter(day != null).map(...)
FilterMap(days, startDate, offset) ==
    VArr([k \in 1..Len(SelectSeq(days.v, NotNullish)) |->
            MapDay(SelectSeq(days.v, NotNullish)[k], k - 1, startDate, offset)])

----------------------------------------------------------------------------
(* The domain functions: from the pending event to the terminal event *)

T_Itinerary ==
    <<"[", "{", "\"", "d", "a", "t", "e", "\"", ":", "\"", "x", "\"", ",", "\"", "a", "c", "t",
      "i", "v", "i", "t", "i", "e", "s", "\"", ":", "[", "1", "]", "}", ",", "n", "u", "l",
      "l", ",", "{", "\"", "a", "c", "t", "i", "v", "i", "t", "i", "e", "s", "\"", ":", "n",
      "u", "l", "l", "}", ",", "{", "}", "]">>
T_Wrapped ==
    <<"{", "\"", "d", "a", "y", "s", "\"", ":", "[", "7", ",", "{", "\"", "a", "c", "t", "i",
      "v", "i", "t", "i", "e", "s", "\"", ":", "\"", "y", "\"", "}", "]", "}">>
T_Overview ==
    <<"{", "\"", "n", "a", "m", "e", "\"", ":", "\"", "N", "\"", ",", "\"", "e", "m", "o", "j",
      "i", "\"", ":", "\"", "e", "\"", ",", "\"", "d", "e", "s", "c", "r", "i", "p", "t", "i",
      "o", "n", "\"", ":", "\"", "d", "\"", ",", "\"", "c", "o", "v", "e", "r", "G", "r", "a",
      "d", "i", "e", "n", "t", "\"", ":", "\"", "g", "\"", "}">>
T_Prose ==
    <<"S", "o", "r", "r", "y", ".">>
NullNameMsg ==
    <<"C", "a", "n", "n", "o", "t", " ", "r", "e", "a", "d", " ", "p", "r", "o", "p", "e", "r",
      "t", "i", "e", "s", " ", "o", "f", " ", "n", "u", "l", "l", " ", "(", "r", "e", "a", "d",
      "i", "n", "g", " ", "'", "n", "a", "m", "e", "'", ")">>
NullLengthMsg ==
    <<"C", "a", "n", "n", "o", "t", " ", "r", "e", "a", "d", " ", "p", "r", "o", "p", "e", "r",
      "t", "i", "e", "s", " ", "o", "f", " ", "n", "u", "l", "l", " ", "(", "r", "e", "a", "d",
      "i", "n", "g", " ", "'", "l", "e", "n", "g", "t", "h", "'", ")">>
UndefinedLengthMsg ==
    <<"C", "a", "n", "n", "o", "t", " ", "r", "e", "a", "d", " ", "p", "r", "o", "p", "e", "r",
      "t", "i", "e", "s", " ", "o", "f", " ", "u", "n", "d", "e", "f", "i", "n", "e", "d", " ",
      "(", "r", "e", "a", "d", "i", "n", "g", " ", "'", "l", "e", "n", "g", "t", "h", "'", ")">>
D_Mar1 ==
    <<"2", "0", "2", "6", "-", "0", "3", "-", "0", "1">>
D_Feb27 ==
    <<"2", "0", "2", "6", "-", "0", "2", "-", "2", "7">>
D_LeapFeb28 ==
    <<"2", "0", "2", "4", "-", "0", "2", "-", "2", "8">>
D_Dec30 ==
    <<"2", "0", "2", "6", "-", "1", "2", "-", "3", "0">>
ChatReply ==
    <<"T", "r", "y", " ", "t", "h", "e", " ", "r", "a", "m", "e", "n", ".">>

GenerationFns == {"generateTripDetails", "generateItinerary", "generatePackingList"}
Fns == GenerationFns \cup {"chatAboutTrip", "searchTravel"}

\* nanoid(): a random id; two calls can draw the same one.
Ids == {"k3x9a2f", "q7m1z0c"}

\* An Error object: where it was thrown, and its message.
Err(at, message) == [at |-> at, message |-> message]
NoError == Err("", <<>>)

\* What the listener is handed by logActivity, and a fetch, as entries of log.
Event(call, id, status, detail) ==
    [kind |-> "event", call |-> call, id |-> id, status |-> status, detail |-> detail,
     to |-> ""]
Fetched(call, provider) ==
    [kind |-> "fetch", call |-> call, id |-> "", status |-> "", detail |-> <<>>,
     to |-> provider]

\* A call of the domain function fn with its arguments; reply is what the
\* provider it reaches will answer.
NewCall(fn, aKey, pKey, ctx, startDate, reply) ==
    [fn |-> fn, anthropicKey |-> aKey, perplexityKey |-> pKey, context |-> ctx,
     startDate |-> startDate, reply |-> reply, pc |-> "start", actId |-> "",
     provider |-> "", outcome |-> Pending, thrown |-> NoError,
     history |-> <<>>, sent |-> <<>>]

\* The call made with a conversation so far.
WithHistory(c, history) == [c EXCEPT !.history = history]

\* The chat that never leaves Perplexity.
ChatUsesClaudeNever(c) == FALSE

\* (attachments?.length || !perplexityKey) && anthropicKey
ChatUsesClaude(c) ==
    (Len(c.context.files) > 0 \/ c.perplexityKey = "") /\ c.anthropicKey # ""

\* The transport the call reaches first, "none" when callGeneration throws
\* before any fetch.
Route(c) ==
    IF c.fn \in GenerationFns
    THEN (IF MissingKey(c.anthropicKey) THEN "none" ELSE "claude")
    ELSE IF c.fn = "chatAboutTrip" /\ ChatUsesClaude(c) THEN "claude"
    ELSE "perplexity"

R_User ==
    <<"u", "s", "e", "r">>
R_Assistant ==
    <<"a", "s", "s", "i", "s", "t", "a", "n", "t">>
R_System ==
    <<"s", "y", "s", "t", "e", "m">>
SystemPrompt ==
    <<"B", "e", " ", "c", "o", "n", "c", "i", "s", "e", ".">>
PreviousConversation ==
    <<"P", "r", "e", "v", "i", "o", "u", "s", " ", "c", "o", "n", "v", "e", "r", "s", "a", "t",
      "i", "o", "n", ":", "\n">>

\* One message of a request body.
Msg(role, content) == [role |-> role, content |-> content]

RECURSIVE JoinLines(_)
\* lines.join('\n')
JoinLines(lines) ==
    IF lines = <<>> THEN <<>>
    ELSE IF Len(lines) = 1 THEN lines[1]
    ELSE lines[1] \o <<"\n">> \o JoinLines(Tail(lines))

\* historyContext of chatAboutTrip.
HistoryContext(history) ==
    IF Len(history) # 0
    THEN PreviousConversation
         \o JoinLines([k \in 1..Len(history) |->
                          history[k].role \o <<":", " ">> \o history[k].content])
         \o <<"\n", "\n">>
    ELSE <<>>

\* withHistory of chatAboutTrip: the blocks sent to Claude.
WithHistoryBlocks(content, historyContext) ==
    IF content.kind = "string"
    THEN <<Block("text", <<>>, "", historyContext \o content.text)>>
    ELSE <<Block("text", <<>>, "", historyContext)>> \o content.blocks

\* allMessages of callPerplexity.
AllMessages(system, messages) == <<Msg(R_System, system)>> \o messages

\* The messages of the request body the call's fetch carries.
Request(c) ==
    IF Route(c) = "none" THEN <<>>
    ELSE IF c.fn = "chatAboutTrip"
    THEN (IF Route(c) = "claude"
          THEN <<Msg(R_User, BlockContent(WithHistoryBlocks(
                     buildClaudeContent(Prompt, [text |-> <<>>, files |-> c.context.files]),
                     HistoryContext(c.history))))>>
          ELSE AllMessages(SystemPrompt, c.history \o <<Msg(R_User, Prompt)>>))
    ELSE IF c.fn = "searchTravel"
    THEN AllMessages(SystemPrompt, <<Msg(R_User, Prompt)>>)
    ELSE <<Msg(R_User, buildClaudeContent(Prompt, c.context))>>

\* What the awaited transport call gives back.
TransportResult(c) ==
    IF c.provider = "claude" THEN callClaude(c.reply)
    ELSE IF c.provider = "perplexity" THEN callPerplexity(c.reply)
    ELSE Threw(ConfigErrorMsg)

ThrownAt(c) ==
    IF c.provider = "claude" THEN "callClaude"
    ELSE IF c.provider = "perplexity" THEN "callPerplexity"
    ELSE "callGeneration"

Success(v) == [ok |-> TRUE, val |-> v, err |-> NoError]
Failure(e) == [ok |-> FALSE, val |-> NoVal, err |-> e]

\* result.reduce((n, d) => n + d.activities.length, 0) of the success message:
\* .length of null or undefined is a TypeError.
AfterMap(result) ==
    IF \E k \in 1..Len(result.v) : GetProp(result.v[k], K_Activities).t = "null"
    THEN Failure(Err("generateItinerary", NullLengthMsg))
    ELSE IF \E k \in 1..Len(result.v) : GetProp(result.v[k], K_Activities).t = "undefined"
    THEN Failure(Err("generateItinerary", UndefinedLengthMsg))
    ELSE Success(result)

\* generateItinerary and generatePackingList once asArray has run.
AfterArray(c, unwrapped, offset) ==
    IF ~unwrapped.ok THEN Failure(Err("asArray", unwrapped.msg))
    ELSE IF c.fn = "generateItinerary"
    THEN AfterMap(FilterMap(unwrapped.val, c.startDate, offset))
    ELSE Success(unwrapped.val)

\* The generation functions once parseJSON has run; result.name of null is a
\* TypeError.
AfterParse(c, parsed, offset) ==
    IF ~parsed.ok THEN Failure(Err("parseJSON", parsed.msg))
    ELSE IF c.fn = "generateTripDetails"
    THEN (IF parsed.val.t = "null" THEN Failure(Err("generateTripDetails", NullNameMsg))
          ELSE Success(parsed.val))
    ELSE AfterArray(c, asArray(parsed.val), offset)

\* The body of the try block after the await.
Completion(c, r, offset) ==
    IF ~r.ok THEN Failure(Err(ThrownAt(c), r.msg))
    ELSE IF c.fn \in GenerationFns THEN AfterParse(c, parseJSON(r.val), offset)
    ELSE Success(VStr(r.val))

\* The catch block that throws an error of its own.
RethrowWrapped(e) == Err("catch", <<"R", "e", "q", "u", "e", "s", "t", " ", "f", "a", "i", "l", "e", "d">>)

\* throw e
Rethrow(e) == e

\* const msg = e instanceof Error ? e.message : 'Unknown error'
Detail(e) == e.message

\* The function's first statements: the pending event, then the call that
\* ends at a fetch or at callGeneration's throw.
Start(p) ==
    /\ calls[p].pc = "start"
    /\ \E id \in Ids :
        /\ calls' = [calls EXCEPT ![p].pc = "await", ![p].actId = id,
                                  ![p].provider = Route(calls[p]),
                                  ![p].sent = Request(calls[p])]
        /\ log' = Append(log, Event(p, id, "pending", <<>>))
                  \o (IF Route(calls[p]) = "none" THEN <<>>
                      ELSE <<Fetched(p, Route(calls[p]))>>)
    /\ UNCHANGED <<host, parseVars, routerVars, uiVars>>

\* The end of the function when logActivity takes no id: the terminal event
\* gets an id of its own.
SettleWithFreshId(p, done) ==
    /\ calls' = [calls EXCEPT ![p].pc = "done",
                              ![p].thrown = done.err,
                              ![p].outcome = IF done.ok THEN Resolved(done.val)
                                             ELSE Rejected(Rethrow(done.err))]
    /\ \E id \in Ids :
        log' = Append(log, IF done.ok THEN Event(p, id, "success", <<>>)
                           ELSE Event(p, id, "error", Detail(done.err)))

\* The end of the function for what the try block came to: the success event
\* and the return, or the error event and the throw.
SettleWith(p, done) ==
    /\ calls' = [calls EXCEPT ![p].pc = "done",
                              ![p].thrown = done.err,
                              ![p].outcome = IF done.ok THEN Resolved(done.val)
                                             ELSE Rejected(Rethrow(done.err))]
    /\ log' = Append(log, IF done.ok THEN Event(p, calls[p].actId, "success", <<>>)
                          ELSE Event(p, calls[p].actId, "error", Detail(done.err)))

\* The function after its await.
Resume(p) ==
    /\ calls[p].pc = "await"
    /\ SettleWith(p, Completion(calls[p], TransportResult(calls[p]), host))
    /\ UNCHANGED <<host, parseVars, routerVars, uiVars>>

\* The most calls in flight together.
MaxCalls == 2

StartDates == {D_Mar1, D_Feb27, D_LeapFeb28, D_Dec30}

\* Browser offsets from UTC, in hours: the two ends of the world's zones, and
\* zones in between.
HostOffsets == {-12, -5, 0, 12, 13, 14}

ModelTexts ==
    {T_Itinerary, T_Wrapped, T_Overview, T_Prose, J_EmptyArr, J_Null, J_Days, J_Num}

Failures ==
    {Response(TRUE, 401, <<>>, FALSE, <<>>),
     Response(TRUE, 529, M_Overloaded, FALSE, <<>>),
     Response(TRUE, 400, M_XApiKey, FALSE, <<>>),
     Response(TRUE, 403, M_Authentication, FALSE, <<>>),
     Response(TRUE, 500, <<>>, FALSE, <<>>),
     NoResponse}

GenerationReplies ==
    {Response(TRUE, 200, <<>>, TRUE, t) : t \in ModelTexts}
    \cup {Response(TRUE, 200, <<>>, FALSE, <<>>)} \cup Failures

ChatReplies == {Response(TRUE, 200, <<>>, TRUE, ChatReply)} \cup Failures

NoContext == [text |-> <<>>, files |-> <<>>]
Attachments ==
    {<<>>, <<File(<<"a", ".", "p", "n", "g">>, MimePng, "iVBORw==")>>,
     <<File(<<"t", ".", "t", "x", "t">>, MimePlain, B64Hi)>>}

\* The most turns of a conversation so far.
MaxTurns == 2

H_Hi ==
    <<"H", "i">>
H_Yo ==
    <<"Y", "o">>

\* Conversations so far, a turn said twice among them.
Histories == SeqsUpTo({Msg(R_User, H_Hi), Msg(R_Assistant, H_Yo)}, MaxTurns)

\* Every call of one domain function the model considers.
DomainCalls ==
    {NewCall("generateTripDetails", k, "", [text |-> n, files |-> f], D_Mar1, r) :
        k \in {"", "sk-ant-1"}, n \in {<<>>, Notes}, f \in Attachments, r \in GenerationReplies}
    \cup {NewCall("generateItinerary", k, "", NoContext, d, r) :
        k \in {"", "sk-ant-1"}, d \in StartDates, r \in GenerationReplies}
    \cup {NewCall("generatePackingList", k, "", NoContext, D_Mar1, r) :
        k \in {"", "sk-ant-1"}, r \in GenerationReplies}
    \cup {WithHistory(NewCall("chatAboutTrip", k, q, [text |-> <<>>, files |-> f], D_Mar1, r), h) :
        k \in {"", "sk-ant-1"}, q \in {"", "pplx-1"}, f \in Attachments, r \in ChatReplies,
        h \in Histories}
    \cup {NewCall("searchTravel", "", q, NoContext, D_Mar1, r) :
        q \in {"", "pplx-1"}, r \in ChatReplies}

\* The calls that run side by side: each function once, between them a
\* success of each provider, a missing key, a refusal and a reply that is not
\* JSON.
ConcurrentCalls ==
    {NewCall("generateItinerary", "sk-ant-1", "", NoContext, D_Mar1,
             Response(TRUE, 200, <<>>, TRUE, T_Itinerary)),
     NewCall("generatePackingList", "", "", NoContext, D_Mar1, NoResponse),
     NewCall("generateTripDetails", "sk-ant-1", "", NoContext, D_Mar1,
             Response(TRUE, 200, <<>>, TRUE, T_Prose)),
     NewCall("chatAboutTrip", "", "pplx-1", NoContext, D_Mar1,
             Response(TRUE, 200, <<>>, TRUE, ChatReply)),
     NewCall("searchTravel", "", "pplx-1", NoContext, D_Mar1,
             Response(TRUE, 401, <<>>, FALSE, <<>>))}

DomainInit ==
    /\ calls \in {<<c>> : c \in DomainCalls}
    /\ log = <<>>
    /\ host \in HostOffsets
    /\ ParseIdle
    /\ RouterIdle
    /\ UiIdle

CallsInit ==
    /\ calls \in [1..MaxCalls -> ConcurrentCalls]
    /\ log = <<>>
    /\ host = 0
    /\ ParseIdle
    /\ RouterIdle
    /\ UiIdle

DomainNext ==
    \/ \E p \in DOMAIN calls : Start(p)
    \/ \E p \in DOMAIN calls : Resume(p)

SpecDomain == DomainInit /\ [][DomainNext]_vars

SpecCalls == CallsInit /\ [][DomainNext]_vars

----------------------------------------------------------------------------
(* The listener slots of activityLog.ts and logger.ts *)

\* The most calls made to the two modules.
MaxOps == 4

MAX_ENTRIES == 300

\* The callbacks components register.
Listeners == {"f1", "f2"}

\* A listener called with an entry, and a call recorded in trace.
Delivery(to, channel, id) == [to |-> to, channel |-> channel, id |-> id]
Op(op, channel, arg) == [op |-> op, channel |-> channel, arg |-> arg]

\* listener?.(entry)
Notify(slot, channel, id) ==
    IF slot # "null" THEN Append(delivered, Delivery(slot, channel, id)) ELSE delivered

\* s.slice(-n)
LastN(s, n) == IF Len(s) <= n THEN s ELSE SubSeq(s, Len(s) - n + 1, Len(s))

\* The registration that leaves a listener already there in place.
setActivityListenerKeepsFirst(fn) ==
    /\ Len(trace) < MaxOps
    /\ activityListener' = IF activityListener = "null" THEN fn ELSE activityListener
    /\ trace' = Append(trace, Op("set", "activity", fn))
    /\ UNCHANGED <<logListener, entries, delivered, returned, slotFrame>>

setActivityListener(fn) ==
    /\ Len(trace) < MaxOps
    /\ activityListener' = fn
    /\ trace' = Append(trace, Op("set", "activity", fn))
    /\ UNCHANGED <<logListener, entries, delivered, returned, slotFrame>>

setLogListener(fn) ==
    /\ Len(trace) < MaxOps
    /\ logListener' = fn
    /\ trace' = Append(trace, Op("set", "log", fn))
    /\ UNCHANGED <<activityListener, entries, delivered, returned, slotFrame>>

\* logActivity(entry, id): id is "undefined" when the caller gives none.
logActivity(id) ==
    /\ Len(trace) < MaxOps
    /\ \E fresh \in Ids :
        /\ delivered' = Notify(activityListener, "activity",
                               IF id # "undefined" THEN id ELSE fresh)
        /\ returned' = IF id # "undefined" THEN id ELSE fresh
        /\ trace' = Append(trace, Op("emit", "activity",
                                     IF id # "undefined" THEN id ELSE fresh))
    /\ UNCHANGED <<activityListener, logListener, entries, slotFrame>>

\* emit of logger.ts, behind logger.debug, info, warn and error.
emit ==
    /\ Len(trace) < MaxOps
    /\ \E id \in Ids :
        /\ entries' = Append(LastN(entries, MAX_ENTRIES - 1), id)
        /\ delivered' = Notify(logListener, "log", id)
        /\ trace' = Append(trace, Op("emit", "log", id))
    /\ UNCHANGED <<activityListener, logListener, returned, slotFrame>>

\* clearLogs: the listener is called with null.
clearLogs ==
    /\ Len(trace) < MaxOps
    /\ entries' = <<>>
    /\ delivered' = Notify(logListener, "log", "null")
    /\ trace' = Append(trace, Op("clear", "log", ""))
    /\ UNCHANGED <<activityListener, logListener, returned, slotFrame>>

SlotsInit ==
    /\ SlotIdle
    /\ AppIdle
    /\ ChatIdle
    /\ ParseIdle
    /\ RouterIdle
    /\ DomainIdle

SlotsNext ==
    \/ \E fn \in Listeners \cup {"null"} : setActivityListener(fn)
    \/ \E fn \in Listeners \cup {"null"} : setLogListener(fn)
    \/ \E id \in Ids \cup {"undefined"} : logActivity(id)
    \/ emit
    \/ clearLogs

SpecSlots == SlotsInit /\ [][SlotsNext]_vars

----------------------------------------------------------------------------
(* The trip handlers of App.tsx, called from the detail view's tabs.        *)
(* TripDetail renders Itinerary and PackingList only while their tab is    *)
(* shown, so each change of tab mounts a component with fresh state.  The  *)
(* component's trip is selectedTrip as of its last render; a handler keeps *)
(* the trip it was called with.  setDoc calls of one client are applied    *)
(* in the order they were made.                                            *)

\* The most handler calls, and the most times a tab is mounted.
MaxTasks == 3
MaxMounts == 3

Tabs == {"overview", "itinerary", "packing"}
GeneratingTabs == {"itinerary", "packing"}

\* A handler call: the trip it was called with, the mount that called it,
\* and the calls still running when it began.
Task(kind, trip, mount, at, during) ==
    [kind |-> kind, trip |-> trip, inst |-> mount, pc |-> at, during |-> during]

InFlight == {q \in 1..Len(tasks) : tasks[q].pc \in {"generating", "saving"}}

\* setLoading(false) of a handler called by mount m: a component no longer
\* mounted ignores it.
SetLoadingFalse(m) == IF m = inst THEN FALSE ELSE loading

\* onTabChange(tab) = setActiveTab(tab)
onTabChange(tab) ==
    /\ tab # activeTab
    /\ inst < MaxMounts
    /\ activeTab' = tab
    /\ inst' = inst + 1
    /\ loading' = FALSE
    /\ UNCHANGED <<trips, selectedTrip, stored, writes, saves, tasks, appFrame>>

\* The update that reaches the list of trips and Firestore but not the
\* trip shown.
handleUpdateTripListOnly(updated, p) ==
    /\ trips' = updated
    /\ selectedTrip' = selectedTrip
    /\ writes' = Append(writes, [task |-> p, trip |-> updated])
    /\ saves' = Append(saves, p)

\* handleUpdateTrip(updated), called by task p, up to its await.
handleUpdateTrip(updated, p) ==
    /\ trips' = updated
    /\ selectedTrip' = updated
    /\ writes' = Append(writes, [task |-> p, trip |-> updated])
    /\ saves' = Append(saves, p)

\* handleGenerate of Itinerary and PackingList, up to the await of the
\* generation.
handleGenerate(tab) ==
    /\ activeTab = tab
    /\ ~loading
    /\ Len(tasks) < MaxTasks
    /\ loading' = TRUE
    /\ tasks' = Append(tasks, Task(tab, selectedTrip, inst, "generating", InFlight))
    /\ UNCHANGED <<trips, selectedTrip, stored, writes, saves, activeTab, inst, appFrame>>

\* handleGenerateItinerary(trip), from the generation's result to the await
\* of saveTrip.
handleGenerateItinerary(p) ==
    /\ tasks[p].kind = "itinerary"
    /\ tasks[p].pc = "generating"
    /\ handleUpdateTrip([tasks[p].trip EXCEPT !.itinerary = Itin(p, FALSE)], p)
    /\ tasks' = [tasks EXCEPT ![p].pc = "saving"]
    /\ UNCHANGED <<stored, activeTab, inst, loading, appFrame>>

\* handleGeneratePackingList(trip), likewise.
handleGeneratePackingList(p) ==
    /\ tasks[p].kind = "packing"
    /\ tasks[p].pc = "generating"
    /\ handleUpdateTrip([tasks[p].trip EXCEPT !.packingList = Pack(p, FALSE)], p)
    /\ tasks' = [tasks EXCEPT ![p].pc = "saving"]
    /\ UNCHANGED <<stored, activeTab, inst, loading, appFrame>>

\* The generation rejects: catch and finally of handleGenerate.
GenerationFails(p) ==
    /\ tasks[p].pc = "generating"
    /\ tasks' = [tasks EXCEPT ![p].pc = "failed"]
    /\ loading' = SetLoadingFalse(tasks[p].inst)
    /\ UNCHANGED <<trips, selectedTrip, stored, writes, saves, activeTab, inst, appFrame>>

\* updateDay of Itinerary: a day of the itinerary shown is edited.
updateDay ==
    /\ activeTab = "itinerary"
    /\ Len(tasks) < MaxTasks
    /\ handleUpdateTrip([selectedTrip EXCEPT !.itinerary.edited = TRUE], Len(tasks) + 1)
    /\ tasks' = Append(tasks, Task("updateDay", selectedTrip, inst, "saving", InFlight))
    /\ UNCHANGED <<stored, activeTab, inst, loading, appFrame>>

\* toggleItem of PackingList: an item of the list shown is ticked or unticked.
toggleItem ==
    /\ activeTab = "packing"
    /\ Len(tasks) < MaxTasks
    /\ handleUpdateTrip([selectedTrip EXCEPT
                            !.packingList.packed = ~selectedTrip.packingList.packed],
                        Len(tasks) + 1)
    /\ tasks' = Append(tasks, Task("toggleItem", selectedTrip, inst, "saving", InFlight))
    /\ UNCHANGED <<stored, activeTab, inst, loading, appFrame>>

\* The oldest setDoc is acknowledged: saveTrip resolves, handleUpdateTrip
\* returns, and a handleGenerate waiting on it reaches its finally.
saveTrip ==
    /\ writes # <<>>
    /\ stored' = Head(writes).trip
    /\ writes' = Tail(writes)
    /\ tasks' = [tasks EXCEPT ![Head(writes).task].pc = "done"]
    /\ loading' = IF tasks[Head(writes).task].kind \in GeneratingTabs
                  THEN SetLoadingFalse(tasks[Head(writes).task].inst)
                  ELSE loading
    /\ UNCHANGED <<trips, selectedTrip, saves, activeTab, inst, appFrame>>

AppInit ==
    /\ AppIdle
    /\ SlotIdle
    /\ ChatIdle
    /\ ParseIdle
    /\ RouterIdle
    /\ DomainIdle

AppNext ==
    \/ \E tab \in Tabs : onTabChange(tab)
    \/ \E tab \in GeneratingTabs : handleGenerate(tab)
    \/ \E p \in 1..Len(tasks) : handleGenerateItinerary(p)
    \/ \E p \in 1..Len(tasks) : handleGeneratePackingList(p)
    \/ \E p \in 1..Len(tasks) : GenerationFails(p)
    \/ updateDay
    \/ toggleItem
    \/ saveTrip

SpecApp == AppInit /\ [][AppNext]_vars

----------------------------------------------------------------------------
(* AIChat.  TripDetail renders it only while the chat tab is shown, so     *)
(* each showing is a fresh mount: messages empty, loading false, and a     *)
(* getChatHistory begun.  send and the callbacks of a mount keep the       *)
(* messages of the render that made them; setMessages and setLoading of a  *)
(* mount that has gone are ignored.  A read of the chat document sees the  *)
(* client's own earlier setDoc calls.                                      *)

\* The most calls of send, and the most times the chat tab is shown.
MaxSends == 2
MaxChatMounts == 2

\* A chat message: who wrote it, what it holds, and the send that made it
\* (0: it was stored before the trip was opened).
ChatMessage(role, content, of) == [role |-> role, content |-> content, of |-> of]

\* The start of the message send stores when chatAboutTrip rejects.
SorryText == "Sorry, I ran into an error: "

\* The chat documents a trip can have when it is opened.
StoredChats == {<<>>, <<ChatMessage("user", "text", 0), ChatMessage("assistant", "reply", 0)>>}

\* setMessages(list) and setLoading(false) of mount m.
SetMessages(list, m) == IF chatShown /\ m = chatMount THEN list ELSE chatMessages
SetChatLoadingFalse(m) == IF chatShown /\ m = chatMount THEN FALSE ELSE chatLoading

\* The chat tab is shown: AIChat mounts and its effect calls getChatHistory.
MountChat ==
    /\ ~chatShown
    /\ chatMount < MaxChatMounts
    /\ chatShown' = TRUE
    /\ chatMount' = chatMount + 1
    /\ chatMessages' = <<>>
    /\ chatLoading' = FALSE
    /\ loadPending' = TRUE
    /\ UNCHANGED <<chatStored, sends, chatFrame>>

\* Another tab is shown: the effect's cleanup sets cancelled.
UnmountChat ==
    /\ chatShown
    /\ chatShown' = FALSE
    /\ loadPending' = FALSE
    /\ UNCHANGED <<chatStored, chatMount, chatMessages, chatLoading, sends, chatFrame>>

\* getChatHistory(trip.id).then(history => setMessages(history))
getChatHistory ==
    /\ chatShown
    /\ loadPending
    /\ chatMessages' = chatStored
    /\ loadPending' = FALSE
    /\ UNCHANGED <<chatStored, chatShown, chatMount, chatLoading, sends, chatFrame>>

\* send(text) with something to send, up to the await of chatAboutTrip.
send ==
    /\ chatShown
    /\ ~chatLoading
    /\ Len(sends) < MaxSends
    /\ chatMessages' = Append(chatMessages, ChatMessage("user", "text", Len(sends) + 1))
    /\ chatLoading' = TRUE
    /\ sends' = Append(sends, [withUser |-> Append(chatMessages,
                                                   ChatMessage("user", "text", Len(sends) + 1)),
                               inst |-> chatMount,
                               stored |-> chatStored,
                               pc |-> "asking",
                               final |-> <<>>])
    /\ UNCHANGED <<chatStored, chatShown, chatMount, loadPending, chatFrame>>

\* chatAboutTrip resolves: final = [...withUser, aiMsg], up to the await of
\* saveChatHistory.
Reply(p) ==
    /\ sends[p].pc = "asking"
    /\ chatMessages' = SetMessages(Append(sends[p].withUser,
                                          ChatMessage("assistant", "reply", p)),
                                   sends[p].inst)
    /\ chatStored' = Append(sends[p].withUser, ChatMessage("assistant", "reply", p))
    /\ sends' = [sends EXCEPT ![p].pc = "saving",
                              ![p].final = Append(sends[p].withUser,
                                                  ChatMessage("assistant", "reply", p))]
    /\ UNCHANGED <<chatShown, chatMount, chatLoading, loadPending, chatFrame>>

\* chatAboutTrip rejects: final = [...withUser, errMsg].
ReplyFails(p) ==
    /\ sends[p].pc = "asking"
    /\ chatMessages' = SetMessages(Append(sends[p].withUser,
                                          ChatMessage("assistant", SorryText, p)),
                                   sends[p].inst)
    /\ chatStored' = Append(sends[p].withUser, ChatMessage("assistant", SorryText, p))
    /\ sends' = [sends EXCEPT ![p].pc = "saving",
                              ![p].final = Append(sends[p].withUser,
                                                  ChatMessage("assistant", SorryText, p))]
    /\ UNCHANGED <<chatShown, chatMount, chatLoading, loadPending, chatFrame>>

\* saveChatHistory resolves: the finally of send.
saveChatHistory(p) ==
    /\ sends[p].pc = "saving"
    /\ sends' = [sends EXCEPT ![p].pc = "done"]
    /\ chatLoading' = SetChatLoadingFalse(sends[p].inst)
    /\ UNCHANGED <<chatStored, chatShown, chatMount, chatMessages, loadPending, chatFrame>>

\* clearChat, confirmed; its button is there while messages are shown.
clearChat ==
    /\ chatShown
    /\ chatMessages # <<>>
    /\ chatMessages' = <<>>
    /\ chatStored' = <<>>
    /\ UNCHANGED <<chatShown, chatMount, chatLoading, loadPending, sends, chatFrame>>

ChatInit ==
    /\ chatStored \in StoredChats
    /\ chatShown = FALSE
    /\ chatMount = 0
    /\ chatMessages = <<>>
    /\ chatLoading = FALSE
    /\ loadPending = FALSE
    /\ sends = <<>>
    /\ AppIdle
    /\ SlotIdle
    /\ ParseIdle
    /\ RouterIdle
    /\ DomainIdle

ChatNext ==
    \/ MountChat
    \/ UnmountChat
    \/ getChatHistory
    \/ send
    \/ \E p \in 1..Len(sends) : Reply(p)
    \/ \E p \in 1..Len(sends) : ReplyFails(p)
    \/ \E p \in 1..Len(sends) : saveChatHistory(p)
    \/ clearChat

SpecChat == ChatInit /\ [][ChatNext]_vars

----------------------------------------------------------------------------
(* Claims about callGeneration *)

EndsWith(s, lit) == Len(s) >= Len(lit) /\ StartsWithAt(s, Len(s) - Len(lit) + 1, lit)

OnlyFallbackKey == anthropicKey = "" /\ perplexityKey # ""

\* One user message whose content is a string that ends with the prompt.
PlainTextSent ==
    /\ Len(pplxContent) = 1
    /\ pplxContent[1].role = "user"
    /\ EndsWith(pplxContent[1].content, Prompt)

AuthClass(resp) ==
    /\ resp.net
    /\ ~ResOk(resp)
    /\ \/ resp.status = 401
       \/ Includes(ToLowerCase(resp.message), <<"a", "p", "i", "-", "k", "e", "y">>)
       \/ Includes(ToLowerCase(resp.message),
                   <<"a", "u", "t", "h", "e", "n", "t", "i", "c", "a", "t", "i", "o", "n">>)

ClaudeFailed == claudeCalls = 1 /\ pc # "awaitClaude" /\ thrown # <<>>

\* C8: in the earlier callGeneration, after a Claude failure that is not of
\* the authentication class, the error Claude's transport threw is the
\* rejection and Perplexity is not called, even with a Perplexity key.
C8_AuthGated ==
    (snap = "earlier" /\ ClaudeFailed /\ ~AuthClass(claudeResp)) =>
        pplxCalls = 0 /\ pc = "done" /\ outcome = Rejected(thrown)

C10_AtMostTwoCalls ==
    /\ [](claudeCalls <= 1 /\ pplxCalls <= 1 /\ claudeCalls + pplxCalls <= 2)
    /\ [][pplxCalls >= 1 => (claudeCalls' = claudeCalls /\ pplxCalls' = pplxCalls)]_vars

C10_Witness ==
    /\ pc = "done"
    /\ claudeCalls = 1
    /\ pplxCalls = 1
    /\ outcome.settled = "rejected"

\* No header and no decoded bytes of an image or PDF file in the text sent to
\* Perplexity.
NoBinaryData ==
    \A i \in 1..Len(context.files) :
        (IsImage(context.files[i]) \/ IsPdf(context.files[i])) =>
            /\ ~Includes(pplxContent[1].content, context.files[i].name)
            /\ ~Includes(pplxContent[1].content, Atob(context.files[i].dataBase64).val)

AuthFailureWithFallbackKey ==
    snap = "earlier" /\ ClaudeFailed /\ AuthClass(claudeResp) /\ perplexityKey # ""

\* C11: in the earlier callGeneration, after Claude's authentication-class
\* failure with a Perplexity key present, the fallback event has been emitted,
\* exactly one call has gone to Perplexity with one plain-text user message
\* free of image and PDF data, and the request ends as that call ends.
C11_FallbackOnAuthError ==
    AuthFailureWithFallbackKey =>
        /\ Len(events) = 1
        /\ Includes(events[1].message,
                    <<"u", "s", "i", "n", "g", " ", "P", "e", "r", "p", "l", "e", "x", "i", "t", "y">>)
        /\ pplxCalls = 1
        /\ claudeCalls = 1
        /\ PlainTextSent
        /\ NoBinaryData
        /\ pc = "done" => outcome = Settle(callPerplexity(pplxResp))

C11_Witness ==
    /\ AuthFailureWithFallbackKey
    /\ pc = "done"
    /\ \E i \in 1..Len(context.files) : IsImage(context.files[i])
    /\ \E i \in 1..Len(context.files) : IsText(context.files[i])
    /\ outcome.settled = "rejected"

NotBinary(f) == ~IsImage(f) /\ ~IsPdf(f)

\* C12: the text the earlier callGeneration sends to Perplexity is the string
\* buildClaudeContent returns for the same context with its image and PDF
\* files removed.
C12_SameConcatenation ==
    (snap = "earlier" /\ pplxCalls = 1) =>
        LET plain == buildClaudeContent(
                Prompt, [context EXCEPT !.files = SelectSeq(context.files, NotBinary)])
        IN plain.kind = "string" /\ pplxContent[1].content = plain.text

----------------------------------------------------------------------------
(* Claims about buildClaudeContent *)

TextLike(f) == f.mimeType \in {MimePlain, MimeMarkdown}
ImageFile(f) == Len(f.mimeType) >= 6 /\ SubSeq(f.mimeType, 1, 6) = <<"i", "m", "a", "g", "e", "/">>
PdfFile(f) == f.mimeType = MimePdf
Binary(f) == ImageFile(f) \/ PdfFile(f)

\* What one file adds to the text: its decoded contents under its header.
Section(f) ==
    IF TextLike(f) /\ Atob(f.dataBase64).ok
    THEN <<"-", "-", "-", " ">> \o f.name \o <<" ", "-", "-", "-", "\n">>
         \o Atob(f.dataBase64).val \o <<"\n", "\n">>
    ELSE <<>>

RECURSIVE SectionsUpTo(_, _)
SectionsUpTo(files, n) ==
    IF n = 0 THEN <<>> ELSE SectionsUpTo(files, n - 1) \o Section(files[n])

\* Notes, then the text files in input order, then the prompt.
Concatenation(ctx) ==
    (IF ctx.text = <<>> THEN <<>> ELSE UserNotesPrefix \o ctx.text \o <<"\n", "\n">>)
    \o SectionsUpTo(ctx.files, Len(ctx.files)) \o Prompt

Built == claudeCalls = 1

\* C13: for a context with no image and no PDF file, buildClaudeContent
\* returns one string: the prompt alone when there is no text and no file,
\* otherwise the notes, the decoded text files under their headers in input
\* order, and the prompt last.
C13_PlainTextPath ==
    (Built /\ \A i \in 1..Len(context.files) : ~Binary(context.files[i])) =>
        /\ claudeContent.kind = "string"
        /\ claudeContent.text =
              IF context.text = <<>> /\ context.files = <<>> THEN Prompt
              ELSE Concatenation(context)

C13_Witness ==
    /\ Built
    /\ context.text = Notes
    /\ Len(context.files) = 2
    /\ \A i \in 1..Len(context.files) : TextLike(context.files[i])
    /\ context.files[1] # context.files[2]
    /\ \A i \in 1..Len(context.files) : Atob(context.files[i].dataBase64).ok
    /\ claudeContent.kind = "string"

Decodes(f) == ~TextLike(f) \/ Atob(f.dataBase64).ok

\* C15: a text file whose data does not decode adds nothing: what
\* buildClaudeContent returns is what it returns for the same context without
\* the text files that do not decode.
C15_UndecodableSkipped ==
    Built =>
        claudeContent =
            buildClaudeContent(Prompt, [context EXCEPT !.files = SelectSeq(context.files, Decodes)])

C15_Witness ==
    /\ Built
    /\ Len(context.files) = 2
    /\ ~Decodes(context.files[1])
    /\ Decodes(context.files[2])
    /\ TextLike(context.files[2])

----------------------------------------------------------------------------
(* Claims about the domain functions *)

EventsOf(p, status) ==
    {i \in 1..Len(log) : log[i].kind = "event" /\ log[i].call = p /\ log[i].status = status}

TerminalsOf(p) == EventsOf(p, "success") \cup EventsOf(p, "error")

FetchesOf(p) == {i \in 1..Len(log) : log[i].kind = "fetch" /\ log[i].call = p}

LastOf(p) == log[CHOOSE i \in 1..Len(log) :
                    log[i].call = p /\ \A k \in (i + 1)..Len(log) : log[k].call # p]

\* C17: a call in which something failed (the key check, the transport, the
\* recovery of the JSON, the shape of the value, the post-processing) ends
\* with an error event whose detail is the failure's message and rejects with
\* that very error; it made one fetch at most, and a call that resolved had
\* nothing fail.
C17_ErrorsSurface ==
    \A p \in DOMAIN calls :
        calls[p].pc = "done" =>
            /\ calls[p].thrown # NoError =>
                  /\ calls[p].outcome = Rejected(calls[p].thrown)
                  /\ LastOf(p) = Event(p, calls[p].actId, "error", calls[p].thrown.message)
            /\ Cardinality(FetchesOf(p)) <= 1
            /\ calls[p].provider = "none" =>
                  /\ calls[p].thrown.message = ConfigErrorMsg
                  /\ FetchesOf(p) = {}
            /\ calls[p].provider # "none" /\ ~TransportResult(calls[p]).ok =>
                  calls[p].thrown.message = TransportResult(calls[p]).msg
            /\ ( /\ calls[p].provider # "none"
                 /\ TransportResult(calls[p]).ok
                 /\ calls[p].fn \in GenerationFns
                 /\ ~parseJSON(TransportResult(calls[p]).val).ok ) =>
                  calls[p].thrown.message = FormatErrorMsg
            /\ calls[p].outcome.settled = "resolved" =>
                  /\ calls[p].thrown = NoError
                  /\ TransportResult(calls[p]).ok

\* generateTripDetails got the JSON text null: reading result.name threw, and
\* the call ended with that TypeError.
C17_Witness ==
    \E p \in DOMAIN calls :
        /\ calls[p].pc = "done"
        /\ calls[p].fn = "generateTripDetails"
        /\ calls[p].thrown = Err("generateTripDetails", NullNameMsg)
        /\ calls[p].outcome.settled = "rejected"
        /\ LastOf(p).detail = NullNameMsg

\* The calendar day after a date.
NextDay(t) ==
    IF t.d < DaysInMonth(t.y, t.m) THEN [t EXCEPT !.d = t.d + 1]
    ELSE IF t.m < 12 THEN [t EXCEPT !.m = t.m + 1, !.d = 1]
    ELSE [t EXCEPT !.y = t.y + 1, !.m = 1, !.d = 1]

RECURSIVE AddDays(_, _)
AddDays(t, k) == IF k = 0 THEN t ELSE AddDays(NextDay(t), k - 1)

\* startDate plus k calendar days, as YYYY-MM-DD.
StartPlus(startDate, k) ==
    LET t == AddDays([y |-> KeyNum(SubSeq(startDate, 1, 4)),
                      m |-> KeyNum(SubSeq(startDate, 6, 7)),
                      d |-> KeyNum(SubSeq(startDate, 9, 10))], k)
    IN DigitsOf(t.y) \o <<"-">> \o Pad2(t.m) \o <<"-">> \o Pad2(t.d)

\* C18: in the result of generateItinerary the day of index k (from 0) is
\* dated startDate plus k calendar days, as YYYY-MM-DD, whatever date the
\* model gave it.
C18_DatesFromStart ==
    \A p \in DOMAIN calls :
        ( /\ calls[p].fn = "generateItinerary"
          /\ calls[p].pc = "done"
          /\ calls[p].outcome.settled = "resolved" ) =>
            \A k \in 1..Len(calls[p].outcome.val.v) :
                GetProp(calls[p].outcome.val.v[k], K_Date)
                    = VStr(StartPlus(calls[p].startDate, k - 1))

\* The days the model returned that survive the filter.
ReturnedDays(c) ==
    SelectSeq(asArray(parseJSON(TransportResult(c).val).val).val.v, NotNullish)

\* The reply is a text from which an array of days is recovered.
DaysRecovered(c) ==
    /\ c.fn = "generateItinerary"
    /\ c.provider = "claude"
    /\ TransportResult(c).ok
    /\ parseJSON(TransportResult(c).val).ok
    /\ asArray(parseJSON(TransportResult(c).val).val).ok

\* C19: when generateItinerary recovers an array of days, the call resolves
\* with a success event, and every day of the result has an array for its
\* activities: the day's own array when it had one, the empty array when its
\* activities were null, missing or no array.
C19_ActivitiesAlwaysArray ==
    \A p \in DOMAIN calls :
        calls[p].pc = "done" /\ DaysRecovered(calls[p]) =>
            /\ calls[p].outcome.settled = "resolved"
            /\ LastOf(p).status = "success"
            /\ Len(calls[p].outcome.val.v) = Len(ReturnedDays(calls[p]))
            /\ \A k \in 1..Len(ReturnedDays(calls[p])) :
                  GetProp(calls[p].outcome.val.v[k], K_Activities)
                    = IF GetProp(ReturnedDays(calls[p])[k], K_Activities).t = "arr"
                      THEN GetProp(ReturnedDays(calls[p])[k], K_Activities)
                      ELSE VArr(<<>>)

\* The model returned a day with null activities and a day with none, and the
\* call has resolved.
C19_Witness ==
    \E p \in DOMAIN calls :
        /\ calls[p].pc = "done"
        /\ DaysRecovered(calls[p])
        /\ calls[p].outcome.settled = "resolved"
        /\ \E k \in 1..Len(ReturnedDays(calls[p])) :
              GetProp(ReturnedDays(calls[p])[k], K_Activities).t = "null"
        /\ \E k \in 1..Len(ReturnedDays(calls[p])) :
              GetProp(ReturnedDays(calls[p])[k], K_Activities).t = "undefined"

ProvidersOf(p) == {log[f].to : f \in FetchesOf(p)}

\* C20 as stated: chatAboutTrip and searchTravel send their request to
\* Perplexity and never to Claude.
C20_AlwaysPerplexity ==
    \A p \in DOMAIN calls :
        calls[p].fn \in {"chatAboutTrip", "searchTravel"} /\ calls[p].pc # "start" =>
            ProvidersOf(p) = {"perplexity"}

\* C20: searchTravel sends its one request to Perplexity and never to Claude;
\* chatAboutTrip sends its one request to Claude when an Anthropic key is set
\* and either files are attached or no Perplexity key is set, and to
\* Perplexity otherwise.
C20_ChatRouting ==
    \A p \in DOMAIN calls :
        calls[p].pc # "start" =>
            /\ calls[p].fn = "searchTravel" =>
                  Cardinality(FetchesOf(p)) = 1 /\ ProvidersOf(p) = {"perplexity"}
            /\ calls[p].fn = "chatAboutTrip" =>
                  /\ Cardinality(FetchesOf(p)) = 1
                  /\ ProvidersOf(p) =
                        IF /\ calls[p].anthropicKey # ""
                           /\ (calls[p].context.files # <<>> \/ calls[p].perplexityKey = "")
                        THEN {"claude"} ELSE {"perplexity"}

\* A chat with a file attached and both keys set went to Claude.
C20_Witness ==
    \E p \in DOMAIN calls :
        /\ calls[p].fn = "chatAboutTrip"
        /\ calls[p].pc = "done"
        /\ calls[p].context.files # <<>>
        /\ calls[p].anthropicKey # ""
        /\ calls[p].perplexityKey # ""
        /\ ProvidersOf(p) = {"claude"}

----------------------------------------------------------------------------
(* Claims about the chat, the transports and the shape of the overview *)

TextBlock(text) == Block("text", <<>>, "", text)

\* The new user content on its own, as blocks.
UserContent(c) ==
    IF buildClaudeContent(Prompt, [text |-> <<>>, files |-> c.context.files]).kind = "string"
    THEN <<TextBlock(buildClaudeContent(Prompt, [text |-> <<>>, files |-> c.context.files]).text)>>
    ELSE buildClaudeContent(Prompt, [text |-> <<>>, files |-> c.context.files]).blocks

RECURSIVE TurnLines(_)
\* One "role: content" line per turn.
TurnLines(history) ==
    IF history = <<>> THEN <<>>
    ELSE history[1].role \o <<":", " ">> \o history[1].content \o <<"\n">>
         \o TurnLines(Tail(history))

Preface(history) == PreviousConversation \o TurnLines(history) \o <<"\n">>

\* The blocks once the preface is taken off their front.
AfterPreface(blocks, preface) ==
    IF blocks[1].text = preface THEN Tail(blocks)
    ELSE <<TextBlock(SubSeq(blocks[1].text, Len(preface) + 1, Len(blocks[1].text)))>>
         \o Tail(blocks)

\* C21: a chat sent to Claude carries one user message whose content is the
\* new user content alone when the history is empty, and otherwise the
\* preface "Previous conversation:" with one "role: content" line per turn in
\* the caller's order, ahead of the new user content and of any attachment
\* block; a chat sent to Perplexity carries the system prompt, the history in
\* the caller's order with nothing removed, and the new user message.
C21_HistoryLinearized ==
    \A p \in DOMAIN calls :
        calls[p].fn = "chatAboutTrip" /\ calls[p].pc # "start" =>
            /\ calls[p].provider = "claude" =>
                  /\ Len(calls[p].sent) = 1
                  /\ calls[p].sent[1].role = R_User
                  /\ IF calls[p].history = <<>>
                     THEN calls[p].sent[1].content.blocks = UserContent(calls[p])
                     ELSE /\ calls[p].sent[1].content.blocks[1].type = "text"
                          /\ StartsWithAt(calls[p].sent[1].content.blocks[1].text, 1,
                                          Preface(calls[p].history))
                          /\ AfterPreface(calls[p].sent[1].content.blocks,
                                          Preface(calls[p].history)) = UserContent(calls[p])
            /\ calls[p].provider = "perplexity" =>
                  calls[p].sent = <<Msg(R_System, SystemPrompt)>> \o calls[p].history
                                  \o <<Msg(R_User, Prompt)>>

\* The message holds the needle, whatever the case of its letters.
Mentions(msg, needle) ==
    \E i \in 1..(Len(msg) - Len(needle) + 1) :
        ToLowerCase(SubSeq(msg, i, i + Len(needle) - 1)) = needle

\* The response is one the client turns into the invalid-key error.
KeyRefused(resp) ==
    \/ resp.status = 401
    \/ Mentions(resp.message, <<"a", "p", "i", "-", "k", "e", "y">>)
    \/ Mentions(resp.message,
                <<"a", "u", "t", "h", "e", "n", "t", "i", "c", "a", "t", "i", "o", "n">>)

\* The provider's own message, or the generic one with the status.
OwnOrGeneric(resp, prefix) ==
    IF resp.message # <<>> THEN resp.message ELSE prefix \o DigitsOf(resp.status)

\* C22: on a response outside 2xx each client throws the provider's own
\* error message when there is one and "<Provider> API error <status>"
\* otherwise, except that the Claude client throws the invalid-key error
\* exactly when the status is 401 or the provider's message holds "api-key"
\* or "authentication" in any case; the Perplexity client never throws it.
C22_TransportErrors ==
    \A p \in DOMAIN calls :
        ( /\ calls[p].pc = "done"
          /\ calls[p].provider # "none"
          /\ calls[p].reply.net
          /\ ~(calls[p].reply.status \in 200..299) ) =>
            /\ calls[p].outcome.settled = "rejected"
            /\ calls[p].provider = "claude" =>
                  calls[p].thrown.message =
                      IF KeyRefused(calls[p].reply) THEN InvalidKeyMsg
                      ELSE OwnOrGeneric(calls[p].reply, ClaudeErrorPrefix)
            /\ calls[p].provider = "perplexity" =>
                  /\ calls[p].thrown.message = OwnOrGeneric(calls[p].reply, PplxErrorPrefix)
                  /\ calls[p].thrown.message # InvalidKeyMsg

\* Claude answered 403 "Authentication failed" and the call ended with the
\* invalid-key error.
C22_Witness ==
    \E p \in DOMAIN calls :
        /\ calls[p].pc = "done"
        /\ calls[p].reply = Response(TRUE, 403, M_Authentication, FALSE, <<>>)
        /\ calls[p].provider = "claude"
        /\ calls[p].thrown.message = InvalidKeyMsg

\* The fields of a TripOverview.
OverviewKeys ==
    {<<"n", "a", "m", "e">>,
     <<"e", "m", "o", "j", "i">>,
     <<"d", "e", "s", "c", "r", "i", "p", "t", "i", "o", "n">>,
     <<"c", "o", "v", "e", "r", "G", "r", "a", "d", "i", "e", "n", "t">>}

HoldsKey(value, key) == value.t = "obj" /\ \E i \in 1..Len(value.v) : value.v[i][1] = key

\* C23: what generateTripDetails resolves with is an object that carries
\* name, emoji, description and coverGradient; for any other recovered JSON
\* (an array, a primitive, an object short of a field) the call rejects.
C23_OverviewShape ==
    \A p \in DOMAIN calls :
        ( /\ calls[p].fn = "generateTripDetails"
          /\ calls[p].pc = "done"
          /\ calls[p].outcome.settled = "resolved" ) =>
            \A key \in OverviewKeys : HoldsKey(calls[p].outcome.val, key)

----------------------------------------------------------------------------
(* Claims about extractBalanced *)

\* What one more character makes of the state of a reader: inside a string
\* literal or not, the next character escaped or not, and the depth of the
\* brackets open/close met outside string literals.
Read(q, ch, open, close) ==
    IF q.esc THEN [q EXCEPT !.esc = FALSE]
    ELSE IF q.str
    THEN (IF ch = "\\" THEN [q EXCEPT !.esc = TRUE]
          ELSE IF ch = "\"" THEN [q EXCEPT !.str = FALSE]
          ELSE q)
    ELSE IF ch = "\"" THEN [q EXCEPT !.str = TRUE]
    ELSE IF ch = open THEN [q EXCEPT !.depth = @ + 1]
    ELSE IF ch = close THEN [q EXCEPT !.depth = @ - 1]
    ELSE q

RECURSIVE Reader(_, _, _, _)
\* The states of the reader before each character of text and after the last.
Reader(text, open, close, seen) ==
    IF Len(seen) > Len(text) THEN seen
    ELSE Reader(text, open, close,
                Append(seen, Read(seen[Len(seen)], text[Len(seen)], open, close)))

\* The positions where a close bracket brings the depth back to zero, for
\* the states a reader went through from start on.
Closings(states) ==
    {e \in 1..(Len(states) - 1) : states[e].depth = 1 /\ states[e + 1].depth = 0}

FirstClosing(text, start, states) ==
    IF Closings(states) = {} THEN NotFound
    ELSE [found |-> TRUE,
          text |-> SubSeq(text, start,
                          start - 1 + CHOOSE e \in Closings(states) :
                                          \A x \in Closings(states) : e <= x)]

\* What the claim says extractBalanced gives for an open bracket at start.
Balanced(text, start, open, close) ==
    FirstClosing(text, start,
                 Reader(SubSeq(text, start, Len(text)), open, close,
                        <<[str |-> FALSE, esc |-> FALSE, depth |-> 0]>>))

\* The JSON texts of the model with brackets or escaped quotes inside their
\* string values.
BracketStringTexts == {J_Brackets, J_OpenInStr}

----------------------------------------------------------------------------
(* Claims about keys and time zones *)

\* The call has no key for any provider it could use.
NoUsableKey(c) ==
    IF c.fn \in GenerationFns THEN c.anthropicKey = ""
    ELSE IF c.fn = "searchTravel" THEN c.perplexityKey = ""
    ELSE c.perplexityKey = "" /\ c.anthropicKey = ""

\* C27: no request goes to a provider whose key is empty, and a call with no
\* usable key makes no request at all and rejects.
C27_NoRequestWithoutKey ==
    \A p \in DOMAIN calls :
        calls[p].pc # "start" =>
            /\ "claude" \in ProvidersOf(p) => calls[p].anthropicKey # ""
            /\ "perplexity" \in ProvidersOf(p) => calls[p].perplexityKey # ""
            /\ NoUsableKey(calls[p]) =>
                  /\ FetchesOf(p) = {}
                  /\ calls[p].pc = "done" => calls[p].outcome.settled = "rejected"

\* C28: the dates of the result of generateItinerary are those a browser on
\* UTC gives, startDate plus the index of the day, whatever the offset of the
\* browser it ran in; and so are the dates written into the prompt.
C28_ZoneIndependent ==
    /\ \A p \in DOMAIN calls :
        calls[p].fn = "generateItinerary" /\ calls[p].pc # "start" =>
            \A i \in 0..2 :
                DayDate(calls[p].startDate, i, host) = DayDate(calls[p].startDate, i, 0)
    /\ \A p \in DOMAIN calls :
        ( /\ calls[p].fn = "generateItinerary"
          /\ calls[p].pc = "done"
          /\ calls[p].outcome.settled = "resolved" ) =>
            \A k \in 1..Len(calls[p].outcome.val.v) :
                GetProp(calls[p].outcome.val.v[k], K_Date).v
                    = DayDate(calls[p].startDate, k - 1, 0)

----------------------------------------------------------------------------
(* Claims about the listener slots *)

\* The listener last registered on the channel before the k-th call.
LastSet(k, channel) ==
    IF \E m \in 1..(k - 1) : trace[m].op = "set" /\ trace[m].channel = channel
    THEN trace[CHOOSE m \in 1..(k - 1) :
                   /\ trace[m].op = "set" /\ trace[m].channel = channel
                   /\ \A x \in (m + 1)..(k - 1) :
                         ~(trace[x].op = "set" /\ trace[x].channel = channel)].arg
    ELSE "null"

\* The k-th call emitted an event while a listener was registered.
Heard(k) == trace[k].op = "emit" /\ LastSet(k, trace[k].channel) # "null"

IsEvent(d) == d.id # "null"

\* C24: the events the listeners were called with are, in order, the events
\* emitted while a listener was registered on their channel, each once and
\* to the listener registered last before it; an event emitted after null
\* was registered, or before any registration, reaches no listener; and
\* logActivity returns the id of its event either way.
C24_SingleSlot ==
    /\ SelectSeq(delivered, IsEvent) =
          [j \in 1..Len(SelectSeq([k \in 1..Len(trace) |-> k], Heard)) |->
              Delivery(LastSet(SelectSeq([k \in 1..Len(trace) |-> k], Heard)[j],
                               trace[SelectSeq([k \in 1..Len(trace) |-> k], Heard)[j]].channel),
                       trace[SelectSeq([k \in 1..Len(trace) |-> k], Heard)[j]].channel,
                       trace[SelectSeq([k \in 1..Len(trace) |-> k], Heard)[j]].arg)]
    /\ ( /\ trace # <<>>
         /\ trace[Len(trace)].op = "emit"
         /\ trace[Len(trace)].channel = "activity" ) => returned = trace[Len(trace)].arg

\* A second listener replaced the first and got the next event alone, before
\* null was registered.
C24_Witness ==
    /\ Len(trace) = 4
    /\ trace[1] = Op("set", "activity", "f1")
    /\ trace[2] = Op("set", "activity", "f2")
    /\ trace[3].op = "emit" /\ trace[3].channel = "activity"
    /\ trace[4] = Op("set", "activity", "null")
    /\ delivered = <<Delivery("f2", "activity", trace[3].arg)>>
    /\ returned = trace[3].arg

----------------------------------------------------------------------------
(* Claims about the trip handlers, checked under SpecApp *)

\* What task p changes in a trip, and the trip it passed to handleUpdateTrip.
Apply(trip, p) ==
    CASE tasks[p].kind = "itinerary" -> [trip EXCEPT !.itinerary = Itin(p, FALSE)]
      [] tasks[p].kind = "packing" -> [trip EXCEPT !.packingList = Pack(p, FALSE)]
      [] tasks[p].kind = "updateDay" -> [trip EXCEPT !.itinerary.edited = TRUE]
      [] OTHER -> [trip EXCEPT !.packingList.packed = ~trip.packingList.packed]

Written(p) == Apply(tasks[p].trip, p)

LastSave == saves[Len(saves)]

\* Two itinerary generations, the second begun while the first was running.
Racing(p, q) ==
    /\ p \in 1..Len(tasks) /\ q \in 1..Len(tasks)
    /\ tasks[p].kind = "itinerary"
    /\ tasks[q].kind = "itinerary"
    /\ p \in tasks[q].during

Field(p) == IF tasks[p].kind \in {"itinerary", "updateDay"} THEN "itinerary" ELSE "packingList"

\* One of the two handlers began while the other was running.
Together(a, b) == a \in tasks[b].during \/ b \in tasks[a].during

\* C29: when two handlers that change different parts of the trip run
\* together and both reach handleUpdateTrip, the trip in the list of trips,
\* the trip shown and, once the writes are acknowledged, the stored trip
\* hold the changes of both.
C29_NoLostUpdate ==
    (/\ Len(saves) = 2
     /\ Together(saves[1], saves[2])
     /\ Field(saves[1]) # Field(saves[2]))
    => /\ selectedTrip = Apply(Written(saves[1]), saves[2])
       /\ trips = Apply(Written(saves[1]), saves[2])
       /\ writes = <<>> => stored = Apply(Written(saves[1]), saves[2])

----------------------------------------------------------------------------
(* Claims about AIChat, checked under SpecChat *)

IsPrefix(s, t) == Len(s) <= Len(t) /\ SubSeq(t, 1, Len(s)) = s

\* The list send p passed to saveChatHistory is what was stored when send
\* was called, then its user message, then one assistant message.
KeepsStored(p) ==
    /\ Len(sends[p].final) = Len(sends[p].stored) + 2
    /\ IsPrefix(sends[p].stored, sends[p].final)
    /\ sends[p].final[Len(sends[p].stored) + 1] = ChatMessage("user", "text", p)
    /\ sends[p].final[Len(sends[p].stored) + 2] \in
          {ChatMessage("assistant", "reply", p), ChatMessage("assistant", SorryText, p)}

\* C30: every list a send passes to saveChatHistory holds the messages
\* stored when it was called, in order, then its user message and one
\* assistant message; at most one chatAboutTrip is awaited at a time; and
\* only clearChat takes messages out of the stored chat.
C30_SendKeepsStored ==
    /\ [](/\ \A p \in 1..Len(sends) : sends[p].final # <<>> => KeepsStored(p)
          /\ Cardinality({p \in 1..Len(sends) : sends[p].pc = "asking"}) <= 1)
    /\ [][IsPrefix(chatStored, chatStored') \/ clearChat]_vars

============================================================================
